---------------------------- MODULE Spec2Model ----------------------------
(***************************************************************************)
(* Trade execution and position lifecycle of the Maxxit agents:            *)
(*   - the nonce coordinator of SafeModuleService (getNextNonce),          *)
(*   - the open path (execute-trade endpoint, executeSignal,               *)
(*     executeSignalForDeployment, executeSpotTrade),                      *)
(*   - the close path (closePosition, closeSpotPosition) and the position  *)
(*     monitor.                                                            *)
(* Every await of the TypeScript source is a step boundary: the code       *)
(* between two awaits runs atomically on the event loop.                   *)
(***************************************************************************)
EXTENDS Integers, Sequences, FiniteSets, TLC

(***************************************************************************)
(* Bounds of the model.                                                    *)
(***************************************************************************)
NumCallers == 3
MaxChainCount == 3
NumOpens == 2
MaxSpotCalls == 2
NumCallbacks == 3

\* closePosition calls of the module
MaxModuleCalls == 3

\* the largest uint256, scaled to 16 bits
MaxUint == 65535

\* nonces issued in the run of the process
MaxAcquisitions == 3

\* pending signals a run of the trade worker takes (take: 20, scaled)
MaxTake == 1

Callers == 1..NumCallers
Identities == {"exec1", "exec2"}
Opens == 1..NumOpens
Deployments == {"d1", "d2"}
Signals == {"s1"}

\* executeSpotTrade: the minimum position size, 0.1 USDC, in cents
MinPositionSize == 10

\* MaxxitTradingModule: 20% = 2000 basis points
PROFIT_SHARE_BPS == 2000

\* Map.get on a missing key (nonceTracker), Map.has false (nonceLocks)
Undefined == -1
NoLock == 0

VARIABLES
    \* ---- nonce coordinator (SafeModuleService statics and callers) ----
    nonceTracker,   \* static nonceTracker: address -> last issued nonce
    nonceLocks,     \* static nonceLocks: address -> the holder's lock promise
    chainCount,     \* provider.getTransactionCount(address, 'latest')
    npc,            \* position of each getNextNonce call
    nident,         \* this.executor.address of each call
    nwait,          \* the lock promise a waiting call awaits
    nlocal,         \* the local variable nonce of each call
    issued,         \* per address, the nonces returned, in order of return
    issuedNet,      \* per address, the network count read by each return
    resetSeen,      \* per address: the cache was emptied (or never filled) and
                    \* no call has taken the lock since
    nfresh,         \* the call took the lock as the first one since then
    issuedFirst,    \* per address, nfresh of each return
    \* ---- gateway operations of SafeModuleService ----
    gop,            \* the gateway operation a caller is running
    sent,           \* per address, the transactions submitted, in order
    gresult,        \* what the operation returned
    \* ---- store and chain, as the open path sees them ----
    deployments,    \* agent_deployments rows and the Safe's on-chain module flag
    positions,      \* positions rows
    openTxs,        \* executeTradeWithIntent transactions sent
    \* ---- open invocations ----
    opc,            \* position of each invocation
    opath,          \* its entry path
    osig,           \* its signal
    odep,           \* the deployment it is executing for
    opending,       \* endpoint: the deployments its loop has still to visit
    otx,            \* the transaction it sent for the current deployment
    ocreated,       \* endpoint: positionsCreated.length
    ooutcome,       \* how its last executeSignal* call ended
    oresult,        \* the ExecutionResult that call returned
    \* ---- store and chain, as the close path sees them ----
    safeBalance,    \* token.balanceOf(safeWallet) of each deployment's Safe
    closeTxs,       \* module closePosition transactions sent
    billingEvents,  \* billing_events rows
    closeUpdates,   \* the position.update calls that wrote the closed state
    quotes,         \* the prices getTokenPriceUSD can answer in this run
    swapOuts,       \* the USDC amounts the swap of a close can pay out
    \* ---- monitor runs and Telegram close commands ----
    cpc,            \* position of each client
    ckind,          \* monitor run or Telegram close command
    cqueue,         \* the rows its findMany returned, still to visit
    csnap,          \* the row it is working on, as it read it
    cprice,         \* monitor: currentPrice
    camount,        \* closeSpotPosition: actualBalance
    cexit,          \* closeSpotPosition: exitPrice
    cresult,        \* how its last closePosition call or check ended
    closedCount,    \* monitor: closedCount of the run
    mcycle,         \* monitor: the runs started
    evals,          \* per position, what each monitor run did with it
    \* ---- one open call, await by await ----
    spc,            \* position of the call in executeSignalInternal
    spotCalls,      \* the calls started
    ssignal,        \* ctx.signal
    summaryUsdc,    \* executeSpotTrade: usdcBalance
    positionSize,   \* executeSpotTrade: positionSize
    gatewayCalls,   \* the gateway operations the call invoked
    spotResult,     \* the ExecutionResult the call returned
    signalRows,     \* signals rows: the provenance fields
    storeBefore,    \* positions and signals rows when the call started
    venueStatusRow, \* venue_status has a row for (venue, token)
    tokenRegistryRow, \* token_registry has a row for (chain, token)
    safeUsdc,       \* USDC balance of the Safe
    tokenWhitelisted, \* module: tokenWhitelist[safe][token]
    allowance,      \* USDC allowance of the router
    capitalInitialized, \* module: safeStats[safe].initialized
    \* ---- Telegram confirm and cancel callbacks of one trade ----
    tradeStatus,    \* telegram_trades.status of the trade
    tgpc,           \* position of each callback
    tgPassed,       \* the callbacks whose pending-to-executing update passed
    tgSignals,      \* the callbacks that created a Signal
    tgOpens,        \* the callbacks that called executeSignalForDeployment
    tgReply,        \* the last message each callback sent to the chat
    \* ---- the trade worker and the endpoint call it is in ----
    wpc,            \* position of the worker
    wqueue,         \* pendingSignals still to execute in this run
    wtried,         \* the (signal, deployment) opens this run has attempted
    epc,            \* position of each caller's endpoint call
    esig,           \* the signal of the endpoint call
    epending,       \* endpoint: the deployments still to visit
    \* ---- MaxxitTradingModule ----
    safeStats,      \* safeStats[safe]: initialized, totalProfitsShared
    usdc,           \* USDC balances of the Safe and of the agent creator
    moduleCalls,    \* closePosition calls made
    lastClose       \* the last closePosition call: arguments and outcome

gatewayVars == <<gop, sent, gresult>>

nonceVars == <<nonceTracker, nonceLocks, chainCount, npc, nident, nwait,
               nlocal, issued, issuedNet, resetSeen, nfresh, issuedFirst,
               gop, sent, gresult>>

openVars == <<deployments, positions, openTxs, opc, opath, osig,
              odep, opending, otx, ocreated, ooutcome, oresult>>

\* what the close path leaves alone of the open path
openCallVars == <<deployments, openTxs, opc, opath, osig,
                  odep, opending, otx, ocreated, ooutcome, oresult>>

clientVars == <<cpc, ckind, cqueue, csnap, cprice, camount, cexit, cresult,
                closedCount, mcycle, evals>>

closeVars == <<safeBalance, closeTxs, billingEvents, closeUpdates, quotes, swapOuts,
               cpc, ckind, cqueue, csnap, cprice, camount, cexit, cresult,
               closedCount, mcycle, evals>>

\* the close path's variables other than the Safe's token balance
closeVarsButBalance == <<closeTxs, billingEvents, closeUpdates, quotes, swapOuts,
                         cpc, ckind, cqueue, csnap, cprice, camount, cexit,
                         cresult, closedCount, mcycle, evals>>

vars == <<nonceTracker, nonceLocks, chainCount, npc, nident, nwait,
          nlocal, issued, issuedNet, resetSeen, nfresh, issuedFirst,
          gop, sent, gresult,
          deployments, positions, openTxs, opc, opath, osig,
          odep, opending, otx, ocreated, ooutcome, oresult,
          safeBalance, closeTxs, billingEvents, closeUpdates, quotes, swapOuts,
          cpc, ckind, cqueue, csnap, cprice, camount, cexit, cresult,
          closedCount, mcycle, evals,
          spc, spotCalls, ssignal, summaryUsdc, positionSize, gatewayCalls,
          spotResult, signalRows, storeBefore, venueStatusRow,
          tokenRegistryRow, safeUsdc, tokenWhitelisted, allowance,
          capitalInitialized,
          tradeStatus, tgpc, tgPassed, tgSignals, tgOpens, tgReply,
          wpc, wqueue, wtried, epc, esig, epending,
          safeStats, usdc, moduleCalls, lastClose>>

moduleVars == <<safeStats, usdc, moduleCalls, lastClose>>

workerVars == <<wpc, wqueue, wtried, epc, esig, epending>>

spotTables == <<venueStatusRow, tokenRegistryRow>>

spotChain == <<safeUsdc, tokenWhitelisted, allowance, capitalInitialized>>

spotVars == <<spc, spotCalls, ssignal, summaryUsdc, positionSize,
              gatewayCalls, spotResult, signalRows, storeBefore,
              venueStatusRow, tokenRegistryRow, safeUsdc, tokenWhitelisted,
              allowance, capitalInitialized>>

\* the variables outside the nonce, open and close parts
extVars == <<spotVars, tradeStatus, tgpc, tgPassed, tgSignals, tgOpens,
            tgReply, workerVars, moduleVars>>

\* what a step of one open call leaves alone
spotFrame == <<nonceVars, openCallVars, closeVars,
               tradeStatus, tgpc, tgPassed, tgSignals, tgOpens, tgReply,
               workerVars, moduleVars>>

\* what a step of a Telegram callback leaves alone
tgFrame == <<nonceVars, openVars, closeVars, spotVars, workerVars,
             moduleVars>>

\* what a step of the trade worker leaves alone
workerFrame == <<nonceVars, openCallVars, closeVars, spotVars,
                 tradeStatus, tgpc, tgPassed, tgSignals, tgOpens, tgReply,
                 moduleVars>>

\* what a call of the module leaves alone
moduleFrame == <<nonceVars, openVars, closeVars, spotVars,
                 tradeStatus, tgpc, tgPassed, tgSignals, tgOpens, tgReply,
                 workerVars>>

Max(a, b) == IF a >= b THEN a ELSE b

(***************************************************************************)
(* Nonce coordinator: SafeModuleService.getNextNonce                       *)
(***************************************************************************)
NonceInit ==
    /\ nonceTracker = [a \in Identities |-> Undefined]
    /\ nonceLocks = [a \in Identities |-> NoLock]
    /\ chainCount = [a \in Identities |-> 0]
    /\ npc = [c \in Callers |-> "idle"]
    /\ nident = [c \in Callers |-> "exec1"]
    /\ nwait = [c \in Callers |-> NoLock]
    /\ nlocal = [c \in Callers |-> Undefined]
    /\ issued = [a \in Identities |-> <<>>]
    /\ issuedNet = [a \in Identities |-> <<>>]
    /\ resetSeen = [a \in Identities |-> TRUE]
    /\ nfresh = [c \in Callers |-> FALSE]
    /\ issuedFirst = [a \in Identities |-> <<>>]
    /\ gop = [c \in Callers |-> "none"]
    /\ sent = [a \in Identities |-> <<>>]
    /\ gresult = [c \in Callers |-> "none"]

\* while (SafeModuleService.nonceLocks.has(address))
LockHeldNever(a) == FALSE
LockHeld(a) == nonceLocks[a] # NoLock

\* nonce++ on the cached value
IncrementKeep(n) == n
Increment(n) == n + 1

\* The loop test and, when it fails, the lock creation and the read of the
\* cache: no await separates them.  c is the caller, a its address.
TryLock(c, a) ==
    IF LockHeld(a)
    THEN \* await SafeModuleService.nonceLocks.get(address)
         /\ npc' = [npc EXCEPT ![c] = "awaitLock"]
         /\ nwait' = [nwait EXCEPT ![c] = nonceLocks[a]]
         /\ UNCHANGED <<nonceLocks, nlocal, resetSeen, nfresh>>
    ELSE \* nonceLocks.set(address, lockPromise); nonce = nonceTracker.get()
         /\ nonceLocks' = [nonceLocks EXCEPT ![a] = c]
         /\ nwait' = [nwait EXCEPT ![c] = NoLock]
         /\ nfresh' = [nfresh EXCEPT ![c] = resetSeen[a]]
         /\ resetSeen' = [resetSeen EXCEPT ![a] = FALSE]
         /\ IF nonceTracker[a] = Undefined
            THEN /\ npc' = [npc EXCEPT ![c] = "fetchFirst"]
                 /\ nlocal' = [nlocal EXCEPT ![c] = Undefined]
            ELSE /\ npc' = [npc EXCEPT ![c] = "fetchCheck"]
                 /\ nlocal' = [nlocal EXCEPT ![c] = Increment(nonceTracker[a])]

\* a gateway operation calls getNextNonce for its executor address
getNextNonce(c) ==
    /\ npc[c] = "idle"
    /\ \E a \in Identities :
          /\ nident' = [nident EXCEPT ![c] = a]
          /\ TryLock(c, a)
    /\ UNCHANGED <<nonceTracker, chainCount, issued, issuedNet, issuedFirst>>

\* await new Promise(resolve => setTimeout(resolve, 50)) has elapsed
AfterSleep(c) ==
    /\ npc[c] = "sleep"
    /\ TryLock(c, nident[c])
    /\ UNCHANGED <<nonceTracker, chainCount, nident, issued, issuedNet,
                   issuedFirst>>

\* a releaseLock that resolves nothing: the awaiting calls stay where they are
ReleasedPcNobody(c) == npc

\* finally: nonceLocks.delete(address); releaseLock(): the calls awaiting
\* this caller's promise resume and start their 50 ms sleep
ReleasedPc(c) ==
    [w \in Callers |->
        IF w # c /\ npc[w] = "awaitLock" /\ nwait[w] = c THEN "sleep"
        ELSE npc[w]]

\* getTransactionCount returned: the first fetch, or the sanity check
ChainReadReturns(c) ==
    /\ npc[c] \in {"fetchFirst", "fetchCheck"}
    /\ LET a == nident[c]
           networkNonce == chainCount[a]
           nonce == IF npc[c] = "fetchFirst" THEN networkNonce
                    ELSE IF networkNonce > nlocal[c] THEN networkNonce
                    ELSE nlocal[c]
       IN /\ nonceTracker' = [nonceTracker EXCEPT ![a] = nonce]
          /\ nlocal' = [nlocal EXCEPT ![c] = nonce]
          /\ issued' = [issued EXCEPT ![a] = Append(@, nonce)]
          /\ issuedNet' = [issuedNet EXCEPT ![a] = Append(@, networkNonce)]
          /\ issuedFirst' = [issuedFirst EXCEPT ![a] = Append(@, nfresh[c])]
          /\ nfresh' = [nfresh EXCEPT ![c] = FALSE]
          /\ nonceLocks' = [nonceLocks EXCEPT ![a] = NoLock]
          /\ npc' = [ReleasedPc(c) EXCEPT ![c] = "returned"]
    /\ UNCHANGED <<chainCount, nident, nwait, resetSeen>>

\* getTransactionCount threw: the finally block releases, the cache is kept
ChainReadThrows(c) ==
    /\ npc[c] \in {"fetchFirst", "fetchCheck"}
    /\ nonceLocks' = [nonceLocks EXCEPT ![nident[c]] = NoLock]
    /\ npc' = [ReleasedPc(c) EXCEPT ![c] = "threw"]
    /\ resetSeen' = [resetSeen EXCEPT ![nident[c]] = @ \/ nfresh[c]]
    /\ nfresh' = [nfresh EXCEPT ![c] = FALSE]
    /\ UNCHANGED <<nonceTracker, chainCount, nident, nwait, nlocal, issued,
                   issuedNet, issuedFirst>>

\* the chain includes a transaction of the address (ours or an external one)
ChainAdvance(a) ==
    /\ chainCount[a] < MaxChainCount
    /\ chainCount' = [chainCount EXCEPT ![a] = @ + 1]
    /\ UNCHANGED <<nonceTracker, nonceLocks, npc, nident, nwait, nlocal,
                   issued, issuedNet, resetSeen, nfresh, issuedFirst>>

\* SafeModuleService.resetNonceTracker(address): nonceTracker.delete
resetNonceTracker(a) ==
    /\ nonceTracker' = [nonceTracker EXCEPT ![a] = Undefined]
    /\ resetSeen' = [resetSeen EXCEPT ![a] = TRUE]
    /\ UNCHANGED <<nonceLocks, chainCount, npc, nident, nwait, nlocal,
                   issued, issuedNet, nfresh, issuedFirst>>

\* SafeModuleService.resetNonceTracker(): nonceTracker.clear
resetAllNonceTrackers ==
    /\ nonceTracker' = [a \in Identities |-> Undefined]
    /\ resetSeen' = [a \in Identities |-> TRUE]
    /\ UNCHANGED <<nonceLocks, chainCount, npc, nident, nwait, nlocal,
                   issued, issuedNet, nfresh, issuedFirst>>

NonceNext ==
    \/ \E c \in Callers : getNextNonce(c) /\ UNCHANGED <<extVars, gatewayVars, openVars, closeVars>>
    \/ \E c \in Callers : AfterSleep(c) /\ UNCHANGED <<extVars, gatewayVars, openVars, closeVars>>
    \/ \E c \in Callers : ChainReadReturns(c) /\ UNCHANGED <<extVars, gatewayVars, openVars, closeVars>>
    \/ \E c \in Callers : ChainReadThrows(c) /\ UNCHANGED <<extVars, gatewayVars, openVars, closeVars>>
    \/ \E a \in Identities : ChainAdvance(a) /\ UNCHANGED <<extVars, gatewayVars, openVars, closeVars>>

(***************************************************************************)
(* Gateway operations of SafeModuleService: each builds its call, takes a  *)
(* nonce, submits the transaction and awaits one confirmation.             *)
(***************************************************************************)
\* the callers that run gateway operations
GatewayCallers == {1, 2}

\* the operations that call getNextNonce before they submit
NonceOps == {"executeFromModule", "executeTrade", "executeTradeWithIntent",
             "closePosition", "approveTokenForDex", "setTokenWhitelist"}

\* a transaction request without a nonce / without a gasLimit override: the
\* signer fills them in when it populates the transaction
Implicit == -2
Estimated == 0

\* the gasLimit override of each operation's module call
GasLimit(op) ==
    CASE op = "executeFromModule" -> 1500000
      [] op = "executeTrade" -> 1000000
      [] op = "executeTradeWithIntent" -> 1000000
      [] op = "closePosition" -> 1000000
      [] op = "approveTokenForDex" -> 300000
      [] op = "setTokenWhitelist" -> 300000
      [] OTHER -> Estimated

\* the transaction request caller c hands to the signer
TxRequest(c) ==
    [caller |-> c,
     op |-> gop[c],
     nonce |-> IF gop[c] \in NonceOps THEN nlocal[c] ELSE Implicit,
     gasLimit |-> GasLimit(gop[c])]

\* the operation goes on to its module call although getNextNonce threw
SubmitsAnyway(c) == npc[c] \in {"returned", "populate", "threw"}

\* the operation reaches its module call: getNextNonce returned, or the
\* operation does not call it
Submits(c) == npc[c] \in {"returned", "populate"}

\* executeFromModule, executeTrade, executeTradeWithIntent, closePosition,
\* approveTokenForDex, setTokenWhitelist: const nonce = await getNextNonce()
GatewayCall(c) ==
    /\ gop[c] = "none"
    /\ \E op \in NonceOps : gop' = [gop EXCEPT ![c] = op]
    /\ getNextNonce(c)
    /\ UNCHANGED <<sent, gresult>>

\* initializeCapital: await this.module.initializeCapital(safeAddress), no
\* overrides
initializeCapital(c) ==
    /\ gop[c] = "none"
    /\ npc[c] = "idle"
    /\ gop' = [gop EXCEPT ![c] = "initializeCapital"]
    /\ \E a \in Identities : nident' = [nident EXCEPT ![c] = a]
    /\ npc' = [npc EXCEPT ![c] = "populate"]
    /\ UNCHANGED <<nonceTracker, nonceLocks, chainCount, nwait, nlocal,
                   issued, issuedNet, resetSeen, nfresh, issuedFirst,
                   sent, gresult>>

\* the module call resolves: the transaction is submitted
SendTransaction(c) ==
    /\ gop[c] # "none"
    /\ Submits(c)
    /\ sent' = [sent EXCEPT ![nident[c]] = Append(@, TxRequest(c))]
    /\ npc' = [npc EXCEPT ![c] = "awaitReceipt"]
    /\ UNCHANGED <<nonceTracker, nonceLocks, chainCount, nident, nwait,
                   nlocal, issued, issuedNet, resetSeen, nfresh, issuedFirst,
                   gop, gresult>>

\* the module call rejects before anything is submitted: catch
SendThrows(c) ==
    /\ gop[c] # "none"
    /\ npc[c] \in {"returned", "populate"}
    /\ npc' = [npc EXCEPT ![c] = "done"]
    /\ gresult' = [gresult EXCEPT ![c] = "failure"]
    /\ UNCHANGED <<nonceTracker, nonceLocks, chainCount, nident, nwait,
                   nlocal, issued, issuedNet, resetSeen, nfresh, issuedFirst,
                   gop, sent>>

\* await tx.wait(): the receipt (success: true), or a revert (catch)
GatewayReceipt(c) ==
    /\ npc[c] = "awaitReceipt"
    /\ npc' = [npc EXCEPT ![c] = "done"]
    /\ \E r \in {"success", "failure"} : gresult' = [gresult EXCEPT ![c] = r]
    /\ UNCHANGED <<nonceTracker, nonceLocks, chainCount, nident, nwait,
                   nlocal, issued, issuedNet, resetSeen, nfresh, issuedFirst,
                   gop, sent>>

\* getNextNonce threw inside the operation's try: catch returns
\* { success: false, error }
GatewayCatch(c) ==
    /\ gop[c] # "none"
    /\ npc[c] = "threw"
    /\ npc' = [npc EXCEPT ![c] = "caught"]
    /\ gresult' = [gresult EXCEPT ![c] = "failure"]
    /\ UNCHANGED <<nonceTracker, nonceLocks, chainCount, nident, nwait,
                   nlocal, issued, issuedNet, resetSeen, nfresh, issuedFirst,
                   gop, sent>>

GatewayNext ==
    \/ \E c \in GatewayCallers : GatewayCall(c) /\ UNCHANGED <<extVars, openVars, closeVars>>
    \/ \E c \in GatewayCallers : initializeCapital(c) /\ UNCHANGED <<extVars, openVars, closeVars>>
    \/ \E c \in Callers : AfterSleep(c) /\ UNCHANGED <<extVars, gatewayVars, openVars, closeVars>>
    \/ \E c \in Callers : ChainReadReturns(c) /\ UNCHANGED <<extVars, gatewayVars, openVars, closeVars>>
    \/ \E c \in Callers : ChainReadThrows(c) /\ UNCHANGED <<extVars, gatewayVars, openVars, closeVars>>
    \/ \E a \in Identities : ChainAdvance(a) /\ UNCHANGED <<extVars, gatewayVars, openVars, closeVars>>
    \/ \E c \in GatewayCallers : SendTransaction(c) /\ UNCHANGED <<extVars, openVars, closeVars>>
    \/ \E c \in GatewayCallers : SendThrows(c) /\ UNCHANGED <<extVars, openVars, closeVars>>
    \/ \E c \in GatewayCallers : GatewayReceipt(c) /\ UNCHANGED <<extVars, openVars, closeVars>>
    \/ \E c \in GatewayCallers : GatewayCatch(c) /\ UNCHANGED <<extVars, openVars, closeVars>>

(***************************************************************************)
(* Store rows and chain facts of the open path                             *)
(***************************************************************************)
Null == 0
\* a transaction hash column that is null
NoHash == <<>>

\* agent_deployments: status, sub_active, module_enabled (the cached flag),
\* and what Safe.isModuleEnabled(module) answers on-chain
DeploymentRows ==
    [status : {"ACTIVE", "PAUSED"}, subActive : BOOLEAN,
     moduleEnabled : BOOLEAN, chainModuleEnabled : BOOLEAN]

HealthyDeployment ==
    [status |-> "ACTIVE", subActive |-> TRUE, moduleEnabled |-> TRUE,
     chainModuleEnabled |-> TRUE]

\* deployments in the order of executeSignal's orderBy subStartedAt desc
DeploymentOrder == <<"d1", "d2">>

\* the amountOut of the TradeExecuted event of a confirmed trade
AmountsOut == {5}
\* positionSize of the trades of the model, in USDC
PositionSize == 5000

\* CREATE UNIQUE INDEX positions_deployment_id_signal_id_key
UniqueViolationOff(d, s) == FALSE
UniqueViolation(d, s) ==
    \E p \in positions : p.deploymentId = d /\ p.signalId = s

\* prisma.position.findUnique({ deploymentId_signalId }) of the endpoint
ExistingPosition(d, s) ==
    \E p \in positions : p.deploymentId = d /\ p.signalId = s

\* a transaction hash, and the uuid of a new positions row: one per call
\* of executeSpotTrade (invocation o, deployment d)
TxHash(o, d) == <<"tx", o, d>>
NewId(o, d) == <<"pos", o, d>>
TxOf(h) == CHOOSE t \in openTxs : t.hash = h

\* the row prisma.position.create inserts in executeSpotTrade
NewPosition(id, d, s, txHash, amountOut) ==
    [id |-> id, deploymentId |-> d, signalId |-> s,
     entryPrice |-> IF amountOut > 0 THEN PositionSize \div amountOut ELSE 0,
     qty |-> amountOut,
     entryTxHash |-> txHash,
     side |-> "LONG", takeProfit |-> Null, riskTakeProfit |-> Null,
     trailingEnabled |-> TRUE, trailingPercent |-> 1, highestPrice |-> Null,
     lowestPrice |-> Null,
     closedAt |-> Null, exitPrice |-> Null, exitTxHash |-> NoHash,
     pnl |-> Null, source |-> "auto"]

\* executeTradeWithIntent: tx.wait() resolves for a receipt of status 1 and
\* rejects for a reverted transaction, so success means confirmed
TradeResultSuccessAlways(status) == TRUE
TradeResultSuccess(status) == status = "confirmed"

\* validateSafe of lib/safe-wallet: the Safe is ready, the trading module
\* being enabled on it on-chain
validateSafe(d) == deployments[d].chainModuleEnabled

\* the where clause of the endpoint's second findMany
EndpointEligible(d) ==
    /\ deployments[d].status = "ACTIVE"
    /\ deployments[d].subActive
    /\ deployments[d].moduleEnabled

\* executeSignal: deployments where status ACTIVE, orderBy desc, take 1
RECURSIVE FirstActive(_)
FirstActive(i) ==
    IF i > Len(DeploymentOrder) THEN "none"
    ELSE IF deployments[DeploymentOrder[i]].status = "ACTIVE"
         THEN DeploymentOrder[i]
         ELSE FirstActive(i + 1)

\* the checks without the venue_status lookup
preTradeValidationNoVenue(venueStatus, usdcBalance, sizeValue, tokenRegistry) ==
    IF usdcBalance = 0 THEN "No USDC balance in Safe wallet"
    ELSE IF usdcBalance * sizeValue = 0 THEN "Position size too small"
    ELSE IF ~tokenRegistry THEN "Token not found in registry"
    ELSE "canExecute"

\* preTradeValidation: the four checks in order, first failure wins
preTradeValidation(venueStatus, usdcBalance, sizeValue, tokenRegistry) ==
    IF ~venueStatus THEN "not available on venue"
    ELSE IF usdcBalance = 0 THEN "No USDC balance in Safe wallet"
    ELSE IF usdcBalance * sizeValue = 0 THEN "Position size too small"
    ELSE IF ~tokenRegistry THEN "Token not found in registry"
    ELSE "canExecute"

\* the ExecutionResult of a call, by how the call ended.  A Prisma unique
\* constraint error is caught by executeSpotTrade's catch like any other
\* exception and returned as { success: false, error: error.message }
ExecutionResult(outcome) ==
    CASE outcome = "created" -> [success |-> TRUE, error |-> "none"]
      [] outcome = "safeInvalid" ->
            [success |-> FALSE, error |-> "Safe wallet validation failed"]
      [] outcome = "preTrade" ->
            [success |-> FALSE, error |-> "Pre-trade validation failed"]
      [] outcome = "noDeployment" ->
            [success |-> FALSE, error |-> "No active deployment found"]
      [] outcome = "txFailed" ->
            [success |-> FALSE, error |-> "Transaction submission failed"]
      [] outcome = "duplicate" ->
            [success |-> FALSE, error |-> "error.message"]
      [] OTHER -> [success |-> FALSE, error |-> "error.message"]

NoResult == [success |-> FALSE, error |-> "none"]

\* no open invocation has started
OpensIdle ==
    /\ opc = [o \in Opens |-> "idle"]
    /\ opath = [o \in Opens |-> "none"]
    /\ osig = [o \in Opens |-> "s1"]
    /\ odep = [o \in Opens |-> "none"]
    /\ opending = [o \in Opens |-> {}]
    /\ otx = [o \in Opens |-> NoHash]
    /\ ocreated = [o \in Opens |-> 0]
    /\ ooutcome = [o \in Opens |-> "none"]
    /\ oresult = [o \in Opens |-> NoResult]

\* an empty store
OpenIdle ==
    /\ positions = {}
    /\ openTxs = {}
    /\ OpensIdle

\* the ExecutionResult is returned to the caller: the endpoint's loop goes
\* on to its next deployment, the other paths are done
Return(o, outcome) ==
    /\ ooutcome' = [ooutcome EXCEPT ![o] = outcome]
    /\ oresult' = [oresult EXCEPT ![o] = ExecutionResult(outcome)]
    /\ IF opath[o] = "endpoint"
       THEN /\ opc' = [opc EXCEPT ![o] = "loop"]
            /\ opending' = [opending EXCEPT ![o] = @ \ {odep[o]}]
            /\ ocreated' = [ocreated EXCEPT ![o] =
                               IF outcome = "created" THEN @ + 1 ELSE @]
            /\ otx' = [otx EXCEPT ![o] = NoHash]
            /\ odep' = [odep EXCEPT ![o] = "none"]
       ELSE IF outcome = "created" /\ opath[o] = "telegram"
       THEN /\ opc' = [opc EXCEPT ![o] = "tagSource"]
            /\ UNCHANGED <<opending, ocreated, otx, odep>>
       ELSE /\ opc' = [opc EXCEPT ![o] = "done"]
            /\ otx' = [otx EXCEPT ![o] = NoHash]
            /\ odep' = [odep EXCEPT ![o] = "none"]
            /\ UNCHANGED <<opending, ocreated>>

(***************************************************************************)
(* Entry paths of open                                                     *)
(***************************************************************************)
\* POST execute-trade: the signal, the two findMany, the venue minimum
handler(o) ==
    /\ opc[o] = "idle"
    /\ \E s \in Signals, belowMin \in BOOLEAN :
          LET eligible == {d \in Deployments : EndpointEligible(d)}
          IN /\ opath' = [opath EXCEPT ![o] = "endpoint"]
             /\ osig' = [osig EXCEPT ![o] = s]
             /\ IF eligible = {} \/ belowMin
                THEN /\ opc' = [opc EXCEPT ![o] = "done"]
                     /\ UNCHANGED opending
                ELSE /\ opc' = [opc EXCEPT ![o] = "loop"]
                     /\ opending' = [opending EXCEPT ![o] = eligible]
    /\ UNCHANGED <<deployments, positions, openTxs, odep, otx,
                   ocreated, ooutcome, oresult>>

\* the loop finds a Position of the pair: continue
LoopSkipExisting(o) ==
    /\ opc[o] = "loop"
    /\ \E d \in opending[o] :
          /\ ExistingPosition(d, osig[o])
          /\ opending' = [opending EXCEPT ![o] = @ \ {d}]
    /\ UNCHANGED <<deployments, positions, openTxs, opc, opath,
                   osig, odep, otx, ocreated, ooutcome, oresult>>

\* the loop finds none: executor.executeSignalForDeployment(signal, d).
\* The result of the previous call has gone to positionsCreated or errors.
LoopExecute(o) ==
    /\ opc[o] = "loop"
    /\ \E d \in opending[o] :
          /\ ~ExistingPosition(d, osig[o])
          /\ odep' = [odep EXCEPT ![o] = d]
    /\ opc' = [opc EXCEPT ![o] = "validate"]
    /\ ooutcome' = [ooutcome EXCEPT ![o] = "none"]
    /\ oresult' = [oresult EXCEPT ![o] = NoResult]
    /\ UNCHANGED <<deployments, positions, openTxs, opath, osig,
                   opending, otx, ocreated>>

\* the loop is over: the response, success = positionsCreated.length > 0
LoopEnd(o) ==
    /\ opc[o] = "loop"
    /\ opending[o] = {}
    /\ opc' = [opc EXCEPT ![o] = "done"]
    /\ ooutcome' = [ooutcome EXCEPT ![o] = "response"]
    /\ oresult' = [oresult EXCEPT ![o] =
                      [success |-> ocreated[o] > 0, error |-> "none"]]
    /\ ocreated' = [ocreated EXCEPT ![o] = 0]
    /\ UNCHANGED <<deployments, positions, openTxs, opath, osig,
                   odep, opending, otx>>

\* TradeExecutor.executeSignal(signalId): the latest ACTIVE deployment
executeSignal(o) ==
    /\ opc[o] = "idle"
    /\ \E s \in Signals :
          /\ osig' = [osig EXCEPT ![o] = s]
          /\ opath' = [opath EXCEPT ![o] = "executeSignal"]
          /\ IF FirstActive(1) = "none"
             THEN /\ opc' = [opc EXCEPT ![o] = "done"]
                  /\ ooutcome' = [ooutcome EXCEPT ![o] = "noDeployment"]
                  /\ oresult' = [oresult EXCEPT ![o] =
                                    ExecutionResult("noDeployment")]
                  /\ UNCHANGED odep
             ELSE /\ opc' = [opc EXCEPT ![o] = "validate"]
                  /\ odep' = [odep EXCEPT ![o] = FirstActive(1)]
                  /\ UNCHANGED <<ooutcome, oresult>>
    /\ UNCHANGED <<deployments, positions, openTxs, opending,
                   otx, ocreated>>

\* Telegram confirm: executeTrade creates a Signal of its own and calls
\* executeSignalForDeployment(signal.id, trade.deployment.id)
telegramExecuteTrade(o) ==
    /\ opc[o] = "idle"
    /\ \E s \in Signals, d \in Deployments :
          /\ \A o2 \in Opens : opc[o2] # "idle" => osig[o2] # s
          /\ osig' = [osig EXCEPT ![o] = s]
          /\ odep' = [odep EXCEPT ![o] = d]
    /\ opath' = [opath EXCEPT ![o] = "telegram"]
    /\ opc' = [opc EXCEPT ![o] = "validate"]
    /\ UNCHANGED <<deployments, positions, openTxs, opending,
                   otx, ocreated, ooutcome, oresult>>

(***************************************************************************)
(* executeSignalInternal and executeSpotTrade                              *)
(***************************************************************************)
\* what the reads before the trade can find: the venue record, the USDC
\* balance, sizeModel.value, the registry row, and the checks of
\* executeSpotTrade (execution summary, sizing, executor key, router)
PreTradeCases ==
    {[venueStatus |-> v, usdcBalance |-> b, sizeValue |-> z,
      tokenRegistry |-> r, spotChecks |-> k] :
        v \in BOOLEAN, b \in {0, 1000}, z \in {0, 5}, r \in BOOLEAN,
        k \in BOOLEAN}

PassesPreTrade(c) ==
    /\ preTradeValidation(c.venueStatus, c.usdcBalance, c.sizeValue,
                          c.tokenRegistry) = "canExecute"
    /\ c.spotChecks

\* safeWallet.validateSafe() fails
ValidateSafeFails(o) ==
    /\ opc[o] = "validate"
    /\ ~validateSafe(odep[o])
    /\ Return(o, "safeInvalid")
    /\ UNCHANGED <<deployments, positions, openTxs, opath, osig>>

\* preTradeValidation or a check of executeSpotTrade before the trade fails
PreTradeFails(o) ==
    /\ opc[o] = "validate"
    /\ validateSafe(odep[o])
    /\ {c \in PreTradeCases : ~PassesPreTrade(c)} # {}
    /\ Return(o, "preTrade")
    /\ UNCHANGED <<deployments, positions, openTxs, opath, osig>>

\* every check passes.  The auto-setup that follows (capital, whitelist,
\* approval) never stops the flow: each failure is logged and ignored.
PreTradePasses(o) ==
    /\ opc[o] = "validate"
    /\ validateSafe(odep[o])
    /\ {c \in PreTradeCases : PassesPreTrade(c)} # {}
    /\ opc' = [opc EXCEPT ![o] = "trade"]
    /\ UNCHANGED <<deployments, positions, openTxs, opath, osig,
                   odep, opending, otx, ocreated, ooutcome, oresult>>

\* moduleService.executeTrade sends executeTradeWithIntent
SubmitTrade(o) ==
    /\ opc[o] = "trade"
    /\ openTxs' = openTxs \cup
          {[hash |-> TxHash(o, odep[o]), dep |-> odep[o], sig |-> osig[o],
            status |-> "pending", amountOut |-> 0,
            gate |-> deployments[odep[o]]]}
    /\ otx' = [otx EXCEPT ![o] = TxHash(o, odep[o])]
    /\ opc' = [opc EXCEPT ![o] = "awaitReceipt"]
    /\ UNCHANGED <<deployments, positions, opath, osig, odep,
                   opending, ocreated, ooutcome, oresult>>

\* the nonce read or the send throws: nothing reaches the chain
SubmitThrows(o) ==
    /\ opc[o] = "trade"
    /\ Return(o, "txFailed")
    /\ UNCHANGED <<deployments, positions, openTxs, opath, osig>>

\* tx.wait(): the receipt.  A Safe executes a module transaction only for
\* a module enabled on it, so the trade of a disabled module reverts.
Receipt(o) ==
    /\ opc[o] = "awaitReceipt"
    /\ \E status \in {"confirmed", "reverted"} :
       \E amountOut \in IF status = "confirmed" THEN AmountsOut ELSE {0} :
          /\ status = "confirmed" => deployments[odep[o]].chainModuleEnabled
          /\ openTxs' = (openTxs \ {TxOf(otx[o])}) \cup
                {[TxOf(otx[o]) EXCEPT !.status = status,
                                      !.amountOut = amountOut]}
          \* the swap of a confirmed trade leaves its tokens in the Safe
          /\ safeBalance' = [safeBalance EXCEPT ![odep[o]] = @ + amountOut]
          /\ IF TradeResultSuccess(status)
             THEN /\ opc' = [opc EXCEPT ![o] = "store"]
                  /\ UNCHANGED <<opending, otx, ocreated, ooutcome, oresult,
                                 odep>>
             ELSE Return(o, "txFailed")
    /\ UNCHANGED <<deployments, positions, opath, osig>>

\* prisma.signal.update stores the proof of intent (a field of the signal
\* nothing reads back), prisma.position.create inserts the row
PersistCreated(o) ==
    /\ opc[o] = "store"
    /\ ~UniqueViolation(odep[o], osig[o])
    /\ positions' = positions \cup
          {NewPosition(NewId(o, odep[o]), odep[o], osig[o], otx[o],
                       TxOf(otx[o]).amountOut)}
    /\ Return(o, "created")
    /\ UNCHANGED <<deployments, openTxs, opath, osig>>

\* prisma.position.create is rejected by the unique index: the exception
\* lands in the catch of executeSpotTrade
PersistDuplicate(o) ==
    /\ opc[o] = "store"
    /\ UniqueViolation(odep[o], osig[o])
    /\ Return(o, "duplicate")
    /\ UNCHANGED <<deployments, positions, openTxs, opath, osig>>

\* a store access after the trade throws: signal.update or position.create
StoreThrows(o) ==
    /\ opc[o] = "store"
    /\ Return(o, "storeError")
    /\ UNCHANGED <<deployments, positions, openTxs, opath, osig>>

\* webhook executeTrade: position.update({ source: 'telegram' })
TagSource(o) ==
    /\ opc[o] = "tagSource"
    /\ positions' = {IF p.id = NewId(o, odep[o])
                      THEN [p EXCEPT !.source = "telegram"]
                      ELSE p : p \in positions}
    /\ opc' = [opc EXCEPT ![o] = "done"]
    /\ otx' = [otx EXCEPT ![o] = NoHash]
    /\ odep' = [odep EXCEPT ![o] = "none"]
    /\ UNCHANGED <<deployments, openTxs, opath, osig,
                   opending, ocreated, ooutcome, oresult>>

(***************************************************************************)
(* Close path: monitorPositions, handleCloseCommand, closePosition,        *)
(* closeSpotPosition                                                       *)
(***************************************************************************)
Clients == {"c1", "c2"}

\* what getTokenPriceUSD can answer (Null: price unavailable)
MonitorPrices == {Null, 1050, 1200}
ExitPrices == {Null, 900, 1100}

\* the most of the token a Safe of the model holds
MaxSafeBalance == 5

\* the monitor runs the worker loop starts
MaxCycles == 5

\* the ids positions rows can have
PositionIds == {NewId(o, d) : o \in Opens, d \in Deployments}

\* the positions row of (o, d) after the open, a Telegram tag of its
\* source, and a monitor cycle that left the mark highestPrice
OpenedPosition(o, d, source, highestPrice) ==
    [NewPosition(NewId(o, d), d, "s1", TxHash(o, d), 5)
        EXCEPT !.source = source, !.highestPrice = highestPrice]

\* the confirmed executeTradeWithIntent transaction of that open
OpenedTx(o, d) ==
    [hash |-> TxHash(o, d), dep |-> d, sig |-> "s1", status |-> "confirmed",
     amountOut |-> 5, gate |-> HealthyDeployment]

\* csnap of a client that is working on no row
NoPosition == NewPosition(<<"pos", 0, "none">>, "none", "none", NoHash, 0)

PositionById(id) == CHOOSE p \in positions : p.id = id

\* the hash of the close transaction of client k, in its run, for the row
CloseTxHash(k, id) == <<"close", k, mcycle[k], id>>
CloseTxOf(h) == CHOOSE t \in closeTxs : t.hash = h

\* if (position.closedAt) return 'Position already closed at ...'
AlreadyClosedNever(position) == FALSE
AlreadyClosed(position) == position.closedAt # Null

Min(a, b) == IF a <= b THEN a ELSE b

\* if (side === 'BUY' || side === 'LONG')
IsLong(position) == position.side \in {"BUY", "LONG"}

\* const highestPrice = trailingParams.highestPrice || entryPrice
HighestPrice(position) ==
    IF position.highestPrice # Null THEN position.highestPrice
    ELSE position.entryPrice

\* const lowestPrice = trailingParams.lowestPrice || entryPrice
LowestPrice(position) ==
    IF position.lowestPrice # Null THEN position.lowestPrice
    ELSE position.entryPrice

\* a mark that is read again from the row and never raised
NewHighestStale(position, currentPrice) == HighestPrice(position)

\* const newHighest = Math.max(highestPrice, currentPrice)
NewHighest(position, currentPrice) ==
    Max(HighestPrice(position), currentPrice)

\* const newLowest = Math.min(lowestPrice, currentPrice)
NewLowest(position, currentPrice) ==
    Min(LowestPrice(position), currentPrice)

\* a mark that goes to the store only once the stop is active
MarkMovesWhenActive(position, currentPrice) ==
    /\ position.trailingEnabled
    /\ IF IsLong(position)
       THEN /\ NewHighest(position, currentPrice) > HighestPrice(position)
            /\ NewHighest(position, currentPrice) * 100
                  >= position.entryPrice * 103
       ELSE /\ NewLowest(position, currentPrice) < LowestPrice(position)
            /\ NewLowest(position, currentPrice) * 100
                  <= position.entryPrice * 97

\* if (newHighest > highestPrice), if (newLowest < lowestPrice): the mark
\* goes to the store
MarkMoves(position, currentPrice) ==
    /\ position.trailingEnabled
    /\ IF IsLong(position)
       THEN NewHighest(position, currentPrice) > HighestPrice(position)
       ELSE NewLowest(position, currentPrice) < LowestPrice(position)

\* long: newHighest >= entryPrice * 1.03 and
\*       currentPrice <= newHighest * (1 - trailingPercent / 100)
\* short: newLowest <= entryPrice * 0.97 and
\*        currentPrice >= newLowest * (1 + trailingPercent / 100)
TrailingStop(position, currentPrice) ==
    /\ position.trailingEnabled
    /\ IF IsLong(position)
       THEN /\ NewHighest(position, currentPrice) * 100
                  >= position.entryPrice * 103
            /\ currentPrice * 100 <=
                  NewHighest(position, currentPrice)
                     * (100 - position.trailingPercent)
       ELSE /\ NewLowest(position, currentPrice) * 100
                  <= position.entryPrice * 97
            /\ currentPrice * 100 >=
                  NewLowest(position, currentPrice)
                     * (100 + position.trailingPercent)

\* takeProfit of the position, or else riskModel.takeProfit of its signal
TakeProfitOf(position) ==
    IF position.takeProfit # Null THEN position.takeProfit
    ELSE position.riskTakeProfit

\* a take profit that the price has to pass, not to reach
TakeProfitStrict(position, currentPrice) ==
    /\ TakeProfitOf(position) # Null
    /\ IF IsLong(position)
       THEN currentPrice > TakeProfitOf(position)
       ELSE currentPrice < TakeProfitOf(position)

\* if (takeProfit): long currentPrice >= takeProfit, short
\* currentPrice <= takeProfit
TakeProfit(position, currentPrice) ==
    /\ TakeProfitOf(position) # Null
    /\ IF IsLong(position)
       THEN currentPrice >= TakeProfitOf(position)
       ELSE currentPrice <= TakeProfitOf(position)

\* a take-profit check that is not guarded by !shouldClose
CloseReasonLastCheck(position, currentPrice) ==
    IF TakeProfit(position, currentPrice) THEN "TAKE_PROFIT"
    ELSE IF TrailingStop(position, currentPrice) THEN "TRAILING_STOP"
    ELSE ""

\* shouldClose and closeReason after the trailing stop and the
\* take-profit checks ("": shouldClose is false)
CloseReason(position, currentPrice) ==
    IF TrailingStop(position, currentPrice) THEN "TRAILING_STOP"
    ELSE IF TakeProfit(position, currentPrice) THEN "TAKE_PROFIT"
    ELSE ""

\* a price of null that is taken for a price
PriceUnavailableNever(currentPrice) == FALSE

\* if (!currentPrice)
PriceUnavailable(currentPrice) == currentPrice = Null

\* a closed count that counts every close call
ClosedCountAny(count, result) == count + 1

\* if (result.success) closedCount++
ClosedCount(count, result) ==
    IF result = "success" THEN count + 1 ELSE count

\* pnl = (exitPrice - entryPrice) * actualQty if side is LONG, else
\* (entryPrice - exitPrice) * actualQty; a null exitPrice counts as 0
PnL(position, exitPrice, actualQty) ==
    IF position.side = "LONG"
    THEN (exitPrice - position.entryPrice) * actualQty
    ELSE (position.entryPrice - exitPrice) * actualQty

\* profitShare = (pnl * profitShareBps) / 10000
ProfitShare(pnl) == (pnl * 2000) \div 10000

\* what the swap of a close can pay out for the 5 tokens of a position
\* entered at 1000: less than the entry value, or more
CloseAmountsOut == {4500, 5500}

\* entryValueUSDC = entryPrice * actualQty, as closeSpotPosition passes it
EntryValueUSDC(position, actualQty) == position.entryPrice * actualQty

\* the share a mutated module would take: of the proceeds, not of the profit
ModuleShareOfProceeds(amountOut, entryValueUSDC) ==
    IF amountOut > entryValueUSDC
    THEN (amountOut * PROFIT_SHARE_BPS) \div 10000
    ELSE 0

\* the module's closePosition: the share of the profit it transfers to the
\* profit receiver, (amountOut - entryValueUSDC) * PROFIT_SHARE_BPS / 10000
\* if amountOut > entryValueUSDC, nothing otherwise
ModuleProfitShare(amountOut, entryValueUSDC) ==
    IF amountOut > entryValueUSDC
    THEN ((amountOut - entryValueUSDC) * PROFIT_SHARE_BPS) \div 10000
    ELSE 0

ClientsIdle ==
    /\ cpc = [k \in Clients |-> "idle"]
    /\ ckind = [k \in Clients |-> "none"]
    /\ cqueue = [k \in Clients |-> {}]
    /\ csnap = [k \in Clients |-> NoPosition]
    /\ cprice = [k \in Clients |-> Null]
    /\ camount = [k \in Clients |-> 0]
    /\ cexit = [k \in Clients |-> Null]
    /\ cresult = [k \in Clients |-> "none"]
    /\ closedCount = [k \in Clients |-> 0]
    /\ mcycle = [k \in Clients |-> 0]
    /\ evals = [id \in PositionIds |-> <<>>]

\* nothing of the close path has happened
CloseIdle ==
    /\ safeBalance = [d \in Deployments |-> 0]
    /\ closeTxs = {}
    /\ billingEvents = {}
    /\ closeUpdates = {}
    /\ quotes = {Null}
    /\ swapOuts = {0}
    /\ ClientsIdle

\* a loop that an exception of a failed call would end: the rows left in
\* the batch are not visited
ContinueUnlessThrown(k, id, result) ==
    LET rest == {q \in cqueue[k] : q.id # id}
        thrown == result \in {"txFailed", "storeError", "monitorError"}
    IN /\ cresult' = [cresult EXCEPT ![k] = result]
       /\ cqueue' = [cqueue EXCEPT ![k] = rest]
       /\ cpc' = [cpc EXCEPT ![k] =
                     IF rest = {} \/ thrown THEN "done" ELSE "next"]
       /\ csnap' = [csnap EXCEPT ![k] = NoPosition]
       /\ cprice' = [cprice EXCEPT ![k] = Null]
       /\ camount' = [camount EXCEPT ![k] = 0]
       /\ cexit' = [cexit EXCEPT ![k] = Null]

\* the loop of the client is done with the row id: with result as the
\* outcome it goes on to its next row, or ends
Continue(k, id, result) ==
    LET rest == {q \in cqueue[k] : q.id # id}
    IN /\ cresult' = [cresult EXCEPT ![k] = result]
       /\ cqueue' = [cqueue EXCEPT ![k] = rest]
       /\ cpc' = [cpc EXCEPT ![k] = IF rest = {} THEN "done" ELSE "next"]
       /\ csnap' = [csnap EXCEPT ![k] = NoPosition]
       /\ cprice' = [cprice EXCEPT ![k] = Null]
       /\ camount' = [camount EXCEPT ![k] = 0]
       /\ cexit' = [cexit EXCEPT ![k] = Null]

\* what a monitor run did with a position: the price it had, the
\* closeReason it came to, its closePosition calls and how the last ended
Evaluation(k, currentPrice, reason) ==
    [by |-> k, run |-> mcycle[k], price |-> currentPrice, reason |-> reason,
     calls |-> 0, result |-> IF reason = "" THEN "healthy" ELSE "pending"]

\* the evaluations, with calls more closePosition calls and the outcome
\* result noted on the one run k of the monitor is at for the row id
Noted(k, id, calls, result) ==
    IF ckind[k] = "monitor"
    THEN [evals EXCEPT ![id] =
            [i \in 1..Len(evals[id]) |->
                IF evals[id][i].by = k /\ evals[id][i].run = mcycle[k]
                THEN [evals[id][i] EXCEPT !.calls = @ + calls,
                                          !.result = result]
                ELSE evals[id][i]]]
    ELSE evals

\* executor.closePosition(position.id) returned to the loop of the client:
\* the monitor counts a success, then both go on
CloseReturns(k, id, calls, result) ==
    /\ Continue(k, id, result)
    /\ closedCount' =
          IF ckind[k] = "monitor"
          THEN [closedCount EXCEPT ![k] = ClosedCount(@, result)]
          ELSE closedCount
    /\ evals' = Noted(k, id, calls, result)

\* the client finds rows (its loop starts) or none (it ends)
StartLoop(k, kind, rows) ==
    /\ ckind' = [ckind EXCEPT ![k] = kind]
    /\ cqueue' = [cqueue EXCEPT ![k] = rows]
    /\ cpc' = [cpc EXCEPT ![k] = IF rows = {} THEN "done" ELSE "next"]
    /\ UNCHANGED <<csnap, cprice, camount, cexit, cresult>>

\* monitorPositions: findMany({ closedAt: null }); let closedCount = 0
monitorPositions(k) ==
    /\ cpc[k] = "idle"
    /\ StartLoop(k, "monitor", {p \in positions : p.closedAt = Null})
    /\ mcycle' = [mcycle EXCEPT ![k] = @ + 1]
    /\ closedCount' = [closedCount EXCEPT ![k] = 0]
    /\ UNCHANGED <<positions, safeBalance, closeTxs, billingEvents,
                   closeUpdates, quotes, swapOuts, evals>>

\* run_worker_loop "position-monitor" ... 300: the next run of the monitor
WorkerLoop(k) ==
    /\ cpc[k] = "done"
    /\ ckind[k] = "monitor"
    /\ mcycle[k] < MaxCycles
    /\ cpc' = [cpc EXCEPT ![k] = "idle"]
    /\ ckind' = [ckind EXCEPT ![k] = "none"]
    /\ cresult' = [cresult EXCEPT ![k] = "none"]
    /\ UNCHANGED <<positions, safeBalance, closeTxs, billingEvents,
                   closeUpdates, quotes, swapOuts, cqueue, csnap, cprice, camount,
                   cexit, closedCount, mcycle, evals>>

\* handleCloseCommand: findMany({ deploymentId, source: 'telegram',
\* closedAt: null })
handleCloseCommand(k) ==
    /\ cpc[k] = "idle"
    /\ \E d \in Deployments :
          StartLoop(k, "telegram",
                    {p \in positions : /\ p.deploymentId = d
                                       /\ p.source = "telegram"
                                       /\ p.closedAt = Null})
    /\ UNCHANGED <<positions, safeBalance, closeTxs, billingEvents,
                   closeUpdates, quotes, swapOuts, closedCount, mcycle, evals>>

\* the Telegram loop: executor.closePosition(position.id)
TelegramClose(k) ==
    /\ cpc[k] = "next"
    /\ ckind[k] = "telegram"
    /\ \E p \in cqueue[k] : csnap' = [csnap EXCEPT ![k] = p]
    /\ cpc' = [cpc EXCEPT ![k] = "load"]
    /\ UNCHANGED <<positions, safeBalance, closeTxs, billingEvents,
                   closeUpdates, quotes, swapOuts, ckind, cqueue, cprice, camount,
                   cexit, cresult, closedCount, mcycle, evals>>

\* the monitor loop: no entry price, or no price for the token: continue
MonitorSkip(k) ==
    /\ cpc[k] = "next"
    /\ ckind[k] = "monitor"
    /\ \E p \in cqueue[k], currentPrice \in quotes :
          /\ p.entryPrice = 0 \/ PriceUnavailable(currentPrice)
          /\ Continue(k, p.id, "skipped")
    /\ UNCHANGED <<positions, safeBalance, closeTxs, billingEvents,
                   closeUpdates, quotes, swapOuts, ckind, closedCount, mcycle, evals>>

\* the trailing stop and the take-profit checks of the row p at
\* currentPrice, and the call of executor.closePosition if shouldClose
Decide(k, p, currentPrice) ==
    LET reason == CloseReason(p, currentPrice)
    IN /\ evals' = [evals EXCEPT ![p.id] =
                      Append(@, Evaluation(k, currentPrice, reason))]
       /\ IF reason # ""
          THEN /\ cpc' = [cpc EXCEPT ![k] = "load"]
               /\ csnap' = [csnap EXCEPT ![k] = p]
               /\ cprice' = [cprice EXCEPT ![k] = Null]
               /\ UNCHANGED <<cqueue, camount, cexit, cresult>>
          ELSE Continue(k, p.id, "healthy")

\* the monitor loop: the price is there.  A new mark goes to the store
\* first; otherwise the checks follow at once
MonitorEvaluate(k) ==
    /\ cpc[k] = "next"
    /\ ckind[k] = "monitor"
    /\ \E p \in cqueue[k], currentPrice \in quotes :
          /\ p.entryPrice # 0
          /\ ~PriceUnavailable(currentPrice)
          /\ IF MarkMoves(p, currentPrice)
             THEN /\ cpc' = [cpc EXCEPT ![k] = "updateMark"]
                  /\ csnap' = [csnap EXCEPT ![k] = p]
                  /\ cprice' = [cprice EXCEPT ![k] = currentPrice]
                  /\ UNCHANGED <<cqueue, camount, cexit, cresult, evals>>
             ELSE Decide(k, p, currentPrice)
    /\ UNCHANGED <<positions, safeBalance, closeTxs, billingEvents,
                   closeUpdates, quotes, swapOuts, ckind, closedCount, mcycle>>

\* position.update({ trailingParams: { ...trailingParams, highestPrice:
\* newHighest } }) (lowestPrice: newLowest for a short) on the row of that
\* id, then the checks
MonitorUpdateMark(k) ==
    /\ cpc[k] = "updateMark"
    /\ positions' =
          {IF q.id = csnap[k].id
           THEN [q EXCEPT !.trailingEnabled = csnap[k].trailingEnabled,
                          !.trailingPercent = csnap[k].trailingPercent,
                          !.highestPrice =
                              IF IsLong(csnap[k])
                              THEN NewHighest(csnap[k], cprice[k])
                              ELSE csnap[k].highestPrice,
                          !.lowestPrice =
                              IF IsLong(csnap[k])
                              THEN csnap[k].lowestPrice
                              ELSE NewLowest(csnap[k], cprice[k])]
           ELSE q : q \in positions}
    /\ Decide(k, csnap[k], cprice[k])
    /\ UNCHANGED <<safeBalance, closeTxs, billingEvents, closeUpdates,
                   quotes, swapOuts, ckind, closedCount, mcycle>>

\* that update throws: the loop's catch logs it and goes on
MonitorUpdateThrows(k) ==
    /\ cpc[k] = "updateMark"
    /\ Continue(k, csnap[k].id, "monitorError")
    /\ UNCHANGED <<positions, safeBalance, closeTxs, billingEvents,
                   closeUpdates, quotes, swapOuts, ckind, closedCount, mcycle, evals>>

\* closePosition: findUnique, then the closedAt test
CloseLoad(k) ==
    /\ cpc[k] = "load"
    /\ LET position == PositionById(csnap[k].id)
       IN IF AlreadyClosed(position)
          THEN CloseReturns(k, position.id, 1, "alreadyClosed")
          ELSE /\ csnap' = [csnap EXCEPT ![k] = position]
               /\ cpc' = [cpc EXCEPT ![k] = "balance"]
               /\ evals' = Noted(k, position.id, 1, "pending")
               /\ UNCHANGED <<cqueue, cprice, camount, cexit, cresult,
                              closedCount>>
    /\ UNCHANGED <<positions, safeBalance, closeTxs, billingEvents,
                   closeUpdates, quotes, swapOuts, ckind, mcycle>>

\* closeSpotPosition: tokenContract.balanceOf(safeWallet)
CloseReadBalance(k) ==
    /\ cpc[k] = "balance"
    /\ LET actualBalance == safeBalance[csnap[k].deploymentId]
       IN IF actualBalance = 0
          THEN CloseReturns(k, csnap[k].id, 0, "noBalance")
          ELSE /\ camount' = [camount EXCEPT ![k] = actualBalance]
               /\ cpc' = [cpc EXCEPT ![k] = "submit"]
               /\ UNCHANGED <<cqueue, csnap, cprice, cexit, cresult,
                              closedCount, evals>>
    /\ UNCHANGED <<positions, safeBalance, closeTxs, billingEvents,
                   closeUpdates, quotes, swapOuts, ckind, mcycle>>

\* no registry row, no executor key, no router, or the approval failed and
\* the token is not approved: success false before the close transaction
CloseSetupFails(k) ==
    /\ cpc[k] \in {"balance", "submit"}
    /\ CloseReturns(k, csnap[k].id, 0, "setupFailed")
    /\ UNCHANGED <<positions, safeBalance, closeTxs, billingEvents,
                   closeUpdates, quotes, swapOuts, ckind, mcycle>>

\* exitPrice = getTokenPriceUSD(...), the pnl, then moduleService
\* .closePosition sends the transaction with amountIn = actualBalance
CloseSubmit(k) ==
    /\ cpc[k] = "submit"
    /\ \E exitPrice \in ExitPrices :
          cexit' = [cexit EXCEPT ![k] = exitPrice]
    /\ closeTxs' = closeTxs \cup
          {[hash |-> CloseTxHash(k, csnap[k].id),
            positionId |-> csnap[k].id,
            dep |-> csnap[k].deploymentId,
            amountIn |-> camount[k],
            entryValueUSDC |-> EntryValueUSDC(csnap[k], camount[k]),
            amountOut |-> 0,
            profitShare |-> 0,
            status |-> "pending"]}
    /\ cpc' = [cpc EXCEPT ![k] = "awaitClose"]
    /\ UNCHANGED <<positions, safeBalance, billingEvents, closeUpdates,
                   quotes, swapOuts, ckind, cqueue, csnap, cprice, camount, cresult,
                   closedCount, mcycle, evals>>

\* the nonce read or the send throws: nothing reaches the chain
CloseSubmitThrows(k) ==
    /\ cpc[k] = "submit"
    /\ CloseReturns(k, csnap[k].id, 0, "txFailed")
    /\ UNCHANGED <<positions, safeBalance, closeTxs, billingEvents,
                   closeUpdates, quotes, swapOuts, ckind, mcycle>>

\* tx.wait(): the swap of a confirmed close takes amountIn of the token out
\* of the Safe, so it can confirm only if the Safe still holds that much
CloseReceipt(k) ==
    /\ cpc[k] = "awaitClose"
    /\ LET tx == CloseTxOf(CloseTxHash(k, csnap[k].id))
       IN \E status \in {"confirmed", "reverted"} :
          \E out \in IF status = "confirmed" THEN swapOuts ELSE {0} :
             /\ status = "confirmed" => safeBalance[tx.dep] >= tx.amountIn
             /\ closeTxs' = (closeTxs \ {tx}) \cup
                   {[tx EXCEPT !.status = status,
                               !.amountOut = out,
                               !.profitShare =
                                   ModuleProfitShare(out, tx.entryValueUSDC)]}
             /\ IF status = "confirmed"
                THEN /\ safeBalance' =
                           [safeBalance EXCEPT ![tx.dep] = @ - tx.amountIn]
                     /\ cpc' = [cpc EXCEPT ![k] = "writeClosed"]
                     /\ UNCHANGED <<cqueue, csnap, cprice, camount, cexit,
                                    cresult, closedCount, evals>>
                ELSE /\ CloseReturns(k, csnap[k].id, 0, "txFailed")
                     /\ UNCHANGED safeBalance
    /\ UNCHANGED <<positions, billingEvents, closeUpdates, quotes, swapOuts, ckind,
                   mcycle>>

\* position.update({ closedAt, exitPrice, exitTxHash, qty, pnl })
CloseWrite(k) ==
    /\ cpc[k] = "writeClosed"
    /\ LET pnl == PnL(csnap[k], cexit[k], camount[k])
       IN /\ positions' =
                {IF q.id = csnap[k].id
                 THEN [q EXCEPT !.closedAt = Cardinality(closeUpdates) + 1,
                                !.exitPrice = cexit[k],
                                !.exitTxHash = CloseTxHash(k, csnap[k].id),
                                !.qty = camount[k],
                                !.pnl = pnl]
                 ELSE q : q \in positions}
          /\ closeUpdates' = closeUpdates \cup {<<csnap[k].id, k>>}
          /\ IF pnl > 0
             THEN /\ cpc' = [cpc EXCEPT ![k] = "billing"]
                  /\ UNCHANGED <<cqueue, csnap, cprice, camount, cexit,
                                 cresult, closedCount, evals>>
             ELSE CloseReturns(k, csnap[k].id, 0, "success")
    /\ UNCHANGED <<safeBalance, closeTxs, billingEvents, quotes, swapOuts, ckind,
                   mcycle>>

\* that update throws: the catch of closeSpotPosition returns the error
CloseWriteThrows(k) ==
    /\ cpc[k] = "writeClosed"
    /\ CloseReturns(k, csnap[k].id, 0, "storeError")
    /\ UNCHANGED <<positions, safeBalance, closeTxs, billingEvents,
                   closeUpdates, quotes, swapOuts, ckind, mcycle>>

\* billingEvent.create({ kind: 'PROFIT_SHARE', ... })
CloseBilling(k) ==
    /\ cpc[k] = "billing"
    /\ billingEvents' = billingEvents \cup
          {[positionId |-> csnap[k].id,
            txHash |-> CloseTxHash(k, csnap[k].id),
            amount |-> ProfitShare(PnL(csnap[k], cexit[k], camount[k]))]}
    /\ CloseReturns(k, csnap[k].id, 0, "success")
    /\ UNCHANGED <<positions, safeBalance, closeTxs, closeUpdates, quotes, swapOuts,
                   ckind, mcycle>>

\* that create throws: logged, the close still returns success
CloseBillingThrows(k) ==
    /\ cpc[k] = "billing"
    /\ CloseReturns(k, csnap[k].id, 0, "success")
    /\ UNCHANGED <<positions, safeBalance, closeTxs, billingEvents,
                   closeUpdates, quotes, swapOuts, ckind, mcycle>>

\* tokens of the same symbol reach the Safe from elsewhere (another trade
\* of the deployment, a transfer)
TokensArrive(d) ==
    /\ safeBalance[d] + 5 <= MaxSafeBalance
    /\ safeBalance' = [safeBalance EXCEPT ![d] = @ + 5]
    /\ UNCHANGED <<positions, closeTxs, billingEvents, closeUpdates,
                   quotes, swapOuts, clientVars>>

\* the stores the close path starts from: opens that were confirmed
ClosePositionTables ==
    {{OpenedPosition(1, "d1", "telegram", 1100)},
     {OpenedPosition(1, "d1", "auto", Null),
      OpenedPosition(1, "d2", "telegram", 1100)}}

CloseInit ==
    /\ deployments = [d \in Deployments |-> HealthyDeployment]
    /\ positions \in ClosePositionTables
    /\ openTxs = {OpenedTx(p.id[2], p.deploymentId) : p \in positions}
    /\ OpensIdle
    /\ safeBalance = [d \in Deployments |->
                         IF \E p \in positions : p.deploymentId = d
                         THEN 5 ELSE 0]
    /\ closeTxs = {}
    /\ billingEvents = {}
    /\ closeUpdates = {}
    /\ quotes = MonitorPrices
    /\ swapOuts = CloseAmountsOut
    /\ ClientsIdle

\* a client is inside closePosition
InClosePosition(k) ==
    cpc[k] \in {"load", "balance", "submit", "awaitClose", "writeClosed",
                "billing"}

\* closePosition calls one after the other: never two in progress
CallsInSequence ==
    \A k1 \in Clients : \A k2 \in Clients :
        (InClosePosition(k1) /\ InClosePosition(k2)) => k1 = k2

CloseNext ==
    \/ \E k \in Clients : monitorPositions(k) /\ UNCHANGED <<extVars, nonceVars, openCallVars>>
    \/ \E k \in Clients : handleCloseCommand(k) /\ UNCHANGED <<extVars, nonceVars, openCallVars>>
    \/ \E k \in Clients : TelegramClose(k) /\ UNCHANGED <<extVars, nonceVars, openCallVars>>
    \/ \E k \in Clients : MonitorSkip(k) /\ UNCHANGED <<extVars, nonceVars, openCallVars>>
    \/ \E k \in Clients : MonitorEvaluate(k) /\ UNCHANGED <<extVars, nonceVars, openCallVars>>
    \/ \E k \in Clients : MonitorUpdateMark(k) /\ UNCHANGED <<extVars, nonceVars, openCallVars>>
    \/ \E k \in Clients : MonitorUpdateThrows(k) /\ UNCHANGED <<extVars, nonceVars, openCallVars>>
    \/ \E k \in Clients : CloseLoad(k) /\ UNCHANGED <<extVars, nonceVars, openCallVars>>
    \/ \E k \in Clients : CloseReadBalance(k) /\ UNCHANGED <<extVars, nonceVars, openCallVars>>
    \/ \E k \in Clients : CloseSetupFails(k) /\ UNCHANGED <<extVars, nonceVars, openCallVars>>
    \/ \E k \in Clients : CloseSubmit(k) /\ UNCHANGED <<extVars, nonceVars, openCallVars>>
    \/ \E k \in Clients : CloseSubmitThrows(k) /\ UNCHANGED <<extVars, nonceVars, openCallVars>>
    \/ \E k \in Clients : CloseReceipt(k) /\ UNCHANGED <<extVars, nonceVars, openCallVars>>
    \/ \E k \in Clients : CloseWrite(k) /\ UNCHANGED <<extVars, nonceVars, openCallVars>>
    \/ \E k \in Clients : CloseWriteThrows(k) /\ UNCHANGED <<extVars, nonceVars, openCallVars>>
    \/ \E k \in Clients : CloseBilling(k) /\ UNCHANGED <<extVars, nonceVars, openCallVars>>
    \/ \E k \in Clients : CloseBillingThrows(k) /\ UNCHANGED <<extVars, nonceVars, openCallVars>>
    \/ \E d \in Deployments : TokensArrive(d) /\ UNCHANGED <<extVars, nonceVars, openCallVars>>

\* the same steps, with the closePosition calls kept in sequence
CloseSeqNext == CloseNext /\ CallsInSequence'

(***************************************************************************)
(* The position monitor, one instance, run after run by the worker loop    *)
(***************************************************************************)
\* the one monitor instance
Monitor == "c1"

\* the prices the oracle answers while a position is watched: a rise and a
\* fall of a long, the 3 % activation level of a long and of a short, a
\* fall and a rise of a short, the take-profit levels
RiseQuotes == {1000, 1040, 1048, 1050, 1060}
LongActivationQuotes == {Null, 1019, 1029, 1030}
ShortActivationQuotes == {Null, 980, 971, 970}
FallQuotes == {1000, 950, 949, 940}
LongTakeProfitQuotes == {1049, 1050, 1060, 1100}
ShortTakeProfitQuotes == {951, 950, 940, 900}
NoTrailingQuotes == {Null, 1049, 1050}

\* an open position of side side, with the take profit takeProfit on the
\* row and riskTakeProfit in its signal's riskModel
WatchedPosition(side, trailingEnabled, takeProfit, riskTakeProfit) ==
    [OpenedPosition(1, "d1", "auto", Null)
        EXCEPT !.side = side, !.trailingEnabled = trailingEnabled,
               !.takeProfit = takeProfit, !.riskTakeProfit = riskTakeProfit]

\* the stores the monitor starts from, each with the prices of its run
MonitorTables ==
    {<<{WatchedPosition("LONG", TRUE, Null, Null)}, RiseQuotes>>,
     <<{WatchedPosition("BUY", TRUE, Null, Null)}, LongActivationQuotes>>,
     <<{WatchedPosition("SHORT", TRUE, Null, Null)}, ShortActivationQuotes>>,
     <<{WatchedPosition("SHORT", TRUE, Null, Null)}, FallQuotes>>,
     <<{WatchedPosition("BUY", TRUE, 1050, Null)}, LongTakeProfitQuotes>>,
     <<{WatchedPosition("SHORT", TRUE, Null, 950)}, ShortTakeProfitQuotes>>,
     <<{WatchedPosition("LONG", FALSE, Null, 1050)}, NoTrailingQuotes>>}

MonitorInit ==
    /\ deployments = [d \in Deployments |-> HealthyDeployment]
    /\ \E t \in MonitorTables :
          /\ positions = t[1]
          /\ quotes = t[2]
    /\ swapOuts = {5000}
    /\ openTxs = {OpenedTx(p.id[2], p.deploymentId) : p \in positions}
    /\ OpensIdle
    /\ safeBalance = [d \in Deployments |->
                         IF \E p \in positions : p.deploymentId = d
                         THEN 5 ELSE 0]
    /\ closeTxs = {}
    /\ billingEvents = {}
    /\ closeUpdates = {}
    /\ ClientsIdle

MonitorNext ==
    \/ monitorPositions(Monitor) /\ UNCHANGED <<extVars, nonceVars, openCallVars>>
    \/ WorkerLoop(Monitor) /\ UNCHANGED <<extVars, nonceVars, openCallVars>>
    \/ MonitorSkip(Monitor) /\ UNCHANGED <<extVars, nonceVars, openCallVars>>
    \/ MonitorEvaluate(Monitor) /\ UNCHANGED <<extVars, nonceVars, openCallVars>>
    \/ MonitorUpdateMark(Monitor) /\ UNCHANGED <<extVars, nonceVars, openCallVars>>
    \/ MonitorUpdateThrows(Monitor) /\ UNCHANGED <<extVars, nonceVars, openCallVars>>
    \/ CloseLoad(Monitor) /\ UNCHANGED <<extVars, nonceVars, openCallVars>>
    \/ CloseReadBalance(Monitor) /\ UNCHANGED <<extVars, nonceVars, openCallVars>>
    \/ CloseSetupFails(Monitor) /\ UNCHANGED <<extVars, nonceVars, openCallVars>>
    \/ CloseSubmit(Monitor) /\ UNCHANGED <<extVars, nonceVars, openCallVars>>
    \/ CloseSubmitThrows(Monitor) /\ UNCHANGED <<extVars, nonceVars, openCallVars>>
    \/ CloseReceipt(Monitor) /\ UNCHANGED <<extVars, nonceVars, openCallVars>>
    \/ CloseWrite(Monitor) /\ UNCHANGED <<extVars, nonceVars, openCallVars>>
    \/ CloseWriteThrows(Monitor) /\ UNCHANGED <<extVars, nonceVars, openCallVars>>
    \/ CloseBilling(Monitor) /\ UNCHANGED <<extVars, nonceVars, openCallVars>>
    \/ CloseBillingThrows(Monitor) /\ UNCHANGED <<extVars, nonceVars, openCallVars>>

Paused == [HealthyDeployment EXCEPT !.status = "PAUSED"]
Unsubscribed == [HealthyDeployment EXCEPT !.subActive = FALSE]
ModuleRemoved == [HealthyDeployment EXCEPT !.chainModuleEnabled = FALSE]
ModuleNeverEnabled ==
    [HealthyDeployment EXCEPT !.chainModuleEnabled = FALSE,
                              !.moduleEnabled = FALSE]

\* the deployment tables the model starts from
DeploymentTables ==
    {[d \in Deployments |-> HealthyDeployment],
     [d \in Deployments |-> IF d = "d1" THEN Paused ELSE Unsubscribed],
     [d \in Deployments |-> IF d = "d1" THEN ModuleRemoved
                            ELSE ModuleNeverEnabled]}

OpenInit ==
    /\ deployments \in DeploymentTables
    /\ OpenIdle
    /\ CloseIdle

OpenNext ==
    \/ \E o \in Opens : handler(o) /\ UNCHANGED <<extVars, nonceVars, closeVars>>
    \/ \E o \in Opens : LoopSkipExisting(o) /\ UNCHANGED <<extVars, nonceVars, closeVars>>
    \/ \E o \in Opens : LoopExecute(o) /\ UNCHANGED <<extVars, nonceVars, closeVars>>
    \/ \E o \in Opens : LoopEnd(o) /\ UNCHANGED <<extVars, nonceVars, closeVars>>
    \/ \E o \in Opens : executeSignal(o) /\ UNCHANGED <<extVars, nonceVars, closeVars>>
    \/ \E o \in Opens : telegramExecuteTrade(o) /\ UNCHANGED <<extVars, nonceVars, closeVars>>
    \/ \E o \in Opens : ValidateSafeFails(o) /\ UNCHANGED <<extVars, nonceVars, closeVars>>
    \/ \E o \in Opens : PreTradeFails(o) /\ UNCHANGED <<extVars, nonceVars, closeVars>>
    \/ \E o \in Opens : PreTradePasses(o) /\ UNCHANGED <<extVars, nonceVars, closeVars>>
    \/ \E o \in Opens : SubmitTrade(o) /\ UNCHANGED <<extVars, nonceVars, closeVars>>
    \/ \E o \in Opens : SubmitThrows(o) /\ UNCHANGED <<extVars, nonceVars, closeVars>>
    \/ \E o \in Opens : Receipt(o) /\ UNCHANGED <<extVars, nonceVars, closeVarsButBalance>>
    \/ \E o \in Opens : PersistCreated(o) /\ UNCHANGED <<extVars, nonceVars, closeVars>>
    \/ \E o \in Opens : PersistDuplicate(o) /\ UNCHANGED <<extVars, nonceVars, closeVars>>
    \/ \E o \in Opens : StoreThrows(o) /\ UNCHANGED <<extVars, nonceVars, closeVars>>
    \/ \E o \in Opens : TagSource(o) /\ UNCHANGED <<extVars, nonceVars, closeVars>>

\* the nonce coordinator with its reset operation
NonceResetNext ==
    \/ NonceNext
    \/ \E a \in Identities : resetNonceTracker(a) /\ UNCHANGED <<extVars, gatewayVars, openVars, closeVars>>
    \/ resetAllNonceTrackers /\ UNCHANGED <<extVars, gatewayVars, openVars, closeVars>>

(***************************************************************************)
(* executeSignalInternal and executeSpotTrade, one await at a time.        *)
(* Amounts of USDC are in cents; amountIn is in units of 10^-6 USDC.       *)
(***************************************************************************)
\* the USDC a Safe can hold: nothing, 1 USDC, 100 USDC
UsdcBalances == {0, 100, 10000}

\* signal.sizeModel: a percentage of the balance, or an amount of USDC
SizeModels ==
    {[type |-> "balance-percentage", value |-> 0],
     [type |-> "balance-percentage", value |-> 5],
     [type |-> "fixed-usdc", value |-> 5],
     [type |-> "fixed-usdc", value |-> 3000],
     [type |-> "fixed-usdc", value |-> 20000]}

SpotSignals ==
    {[id |-> "s1", venue |-> v, sizeModel |-> m] :
        v \in {"SPOT", "GMX"}, m \in SizeModels}

\* the provenance fields of a signals row before any execution
NoProvenance == [signalHash |-> NoHash, proofOfIntentTxHash |-> NoHash]

\* ExecutionResult with the fields the failure paths fill in
SpotResult(success, error, reason, canExecute) ==
    [success |-> success, error |-> error, reason |-> reason,
     canExecute |-> canExecute]

NoSpotResult == SpotResult(FALSE, "none", "none", "none")

\* positionSize of executeSpotTrade: sizeModel.value || 0 for a fixed
\* amount, usdcBalance * (sizeModel.value || 5) / 100 for a percentage.
\* Balances and fixed amounts are in the chain's unit; positionSize, a
\* floating point number in the code, is in hundredths of that unit, so
\* that a percentage of a balance is exact.
PositionSizingClamped(sizeModel, usdcBalance) ==
    IF sizeModel.type = "fixed-usdc"
    THEN Min(sizeModel.value, usdcBalance) * 100
    ELSE usdcBalance * (IF sizeModel.value = 0 THEN 5 ELSE sizeModel.value)

PositionSizing(sizeModel, usdcBalance) ==
    IF sizeModel.type = "fixed-usdc"
    THEN sizeModel.value * 100
    ELSE usdcBalance * (IF sizeModel.value = 0 THEN 5 ELSE sizeModel.value)

\* the two checks on positionSize, in the order of the code
SizingCheck(sizeModel, positionSz, usdcBalance) ==
    IF positionSz < MinPositionSize * 100 THEN "Position size too small"
    ELSE IF sizeModel.type = "fixed-usdc" /\ positionSz > usdcBalance * 100
    THEN "Insufficient balance"
    ELSE "ok"

\* ethers.utils.parseUnits(positionSize.toFixed(6), 6): toFixed rounds to
\* the nearest chain unit
AmountIn(positionSz) == (positionSz + 50) \div 100

\* a gateway operation invoked by the call, with what it returned and
\* whether the state it was to bring about holds on the chain after it
GatewayOp(op, amountIn, success, holds) ==
    [op |-> op, amountIn |-> amountIn, success |-> success, holds |-> holds]

SpotIdle ==
    /\ spc = "idle"
    /\ spotCalls = 0
    /\ ssignal = CHOOSE s \in SpotSignals : TRUE
    /\ summaryUsdc = 0
    /\ positionSize = 0
    /\ gatewayCalls = <<>>
    /\ spotResult = NoSpotResult
    /\ signalRows = [s \in Signals |-> NoProvenance]
    /\ storeBefore = <<{}, [s \in Signals |-> NoProvenance]>>
    /\ venueStatusRow = TRUE
    /\ tokenRegistryRow = TRUE
    /\ safeUsdc = 0
    /\ tokenWhitelisted = FALSE
    /\ allowance = FALSE
    /\ capitalInitialized = FALSE

\* the call returns its ExecutionResult
SpotReturn(result) ==
    /\ spc' = "done"
    /\ spotResult' = result

SpotFails(error) == SpotReturn(SpotResult(FALSE, error, "none", "none"))

\* executeSignalForDeployment(signal.id, deployment.id) with both rows
\* found: executeSignalInternal starts
executeSignalInternal ==
    /\ spc \in {"idle", "done"}
    /\ spotCalls < MaxSpotCalls
    /\ spotCalls' = spotCalls + 1
    /\ \E s \in SpotSignals : ssignal' = s
    /\ spc' = "validateSafe"
    /\ summaryUsdc' = 0
    /\ positionSize' = 0
    /\ gatewayCalls' = <<>>
    /\ spotResult' = NoSpotResult
    /\ storeBefore' = <<positions, signalRows>>
    /\ UNCHANGED <<positions, signalRows, spotTables, spotChain>>

\* await safeWallet.validateSafe()
SpotValidateSafe ==
    /\ spc = "validateSafe"
    /\ \E valid \in BOOLEAN :
          IF valid
          THEN spc' = "preTrade" /\ UNCHANGED spotResult
          ELSE SpotFails("Safe wallet validation failed")
    /\ UNCHANGED <<positions, signalRows, spotTables, spotChain, spotCalls,
                   ssignal, summaryUsdc, positionSize, gatewayCalls,
                   storeBefore>>

\* await this.preTradeValidation(signal, deployment, safeWallet)
SpotPreTrade ==
    /\ spc = "preTrade"
    /\ LET reason == preTradeValidation(venueStatusRow, safeUsdc,
                                        ssignal.sizeModel.value,
                                        ssignal.venue # "SPOT" \/ tokenRegistryRow)
       IN IF reason = "canExecute"
          THEN spc' = "route" /\ UNCHANGED spotResult
          ELSE SpotReturn(SpotResult(FALSE, "Pre-trade validation failed",
                                     reason, "false"))
    /\ UNCHANGED <<positions, signalRows, spotTables, spotChain, spotCalls,
                   ssignal, summaryUsdc, positionSize, gatewayCalls,
                   storeBefore>>

\* a read of preTradeValidation throws: its catch answers
\* { canExecute: false, reason: error.message }
SpotPreTradeThrows ==
    /\ spc = "preTrade"
    /\ SpotReturn(SpotResult(FALSE, "Pre-trade validation failed",
                             "error.message", "false"))
    /\ UNCHANGED <<positions, signalRows, spotTables, spotChain, spotCalls,
                   ssignal, summaryUsdc, positionSize, gatewayCalls,
                   storeBefore>>

\* routeToVenue, then adapter.getExecutionSummary of executeSpotTrade
routeToVenue ==
    /\ spc = "route"
    /\ IF ssignal.venue = "SPOT"
       THEN \E canExecute \in BOOLEAN :
               IF canExecute
               THEN /\ spc' = "registry"
                    /\ summaryUsdc' = safeUsdc
                    /\ UNCHANGED spotResult
               ELSE /\ SpotReturn(SpotResult(FALSE,
                          "Cannot execute SPOT trade", "summary.reason",
                          "false"))
                    /\ UNCHANGED summaryUsdc
       ELSE /\ SpotFails("venue not implemented")
            /\ UNCHANGED summaryUsdc
    /\ UNCHANGED <<positions, signalRows, spotTables, spotChain, spotCalls,
                   ssignal, positionSize, gatewayCalls, storeBefore>>

\* prisma.tokenRegistry.findUnique, then the sizing and its two checks
SpotSizing ==
    /\ spc = "registry"
    /\ IF ~tokenRegistryRow
       THEN SpotFails("Token not found in registry") /\ UNCHANGED positionSize
       ELSE LET size == PositionSizing(ssignal.sizeModel, summaryUsdc)
                check == SizingCheck(ssignal.sizeModel, size, summaryUsdc)
            IN /\ positionSize' = size
               /\ IF check = "ok"
                  THEN spc' = "quote" /\ UNCHANGED spotResult
                  ELSE SpotFails(check)
    /\ UNCHANGED <<positions, signalRows, spotTables, spotChain, spotCalls,
                   ssignal, summaryUsdc, gatewayCalls, storeBefore>>

\* adapter.getQuote and the two builds, then the executor key and router
SpotConfig ==
    /\ spc = "quote"
    /\ \E executorPrivateKey \in BOOLEAN, routerAddress \in BOOLEAN :
          IF ~executorPrivateKey
          THEN SpotFails("EXECUTOR_PRIVATE_KEY not configured")
          ELSE IF ~routerAddress
          THEN SpotFails("Router not configured")
          ELSE spc' = "capital" /\ UNCHANGED spotResult
    /\ UNCHANGED <<positions, signalRows, spotTables, spotChain, spotCalls,
                   ssignal, summaryUsdc, positionSize, gatewayCalls,
                   storeBefore>>

\* an await of executeSignalInternal or executeSpotTrade before the
\* auto-setup throws: the catch returns { success: false, error.message }
SpotThrows ==
    /\ spc \in {"validateSafe", "route", "registry", "quote"}
    /\ SpotFails("error.message")
    /\ UNCHANGED <<positions, signalRows, spotTables, spotChain, spotCalls,
                   ssignal, summaryUsdc, positionSize, gatewayCalls,
                   storeBefore>>

\* auto-setup step 1: getSafeStats, initializeCapital when not initialized
SpotCapital ==
    /\ spc = "capital"
    /\ IF capitalInitialized
       THEN UNCHANGED <<capitalInitialized, gatewayCalls>>
       ELSE \E success \in BOOLEAN :
               /\ capitalInitialized' = success
               /\ gatewayCalls' = Append(gatewayCalls,
                      GatewayOp("initializeCapital", 0, success, success))
    /\ spc' = "whitelist"
    /\ UNCHANGED <<positions, signalRows, spotTables, safeUsdc,
                   tokenWhitelisted, allowance, spotCalls, ssignal,
                   summaryUsdc, positionSize, spotResult, storeBefore>>

\* auto-setup step 2: checkTokenWhitelist, setTokenWhitelist when absent.
\* A failed setTokenWhitelist is logged and the call goes on.
SpotWhitelist ==
    /\ spc = "whitelist"
    /\ IF tokenWhitelisted
       THEN /\ spc' = "approval"
            /\ UNCHANGED <<tokenWhitelisted, gatewayCalls, spotResult>>
       ELSE \E success \in BOOLEAN :
               /\ tokenWhitelisted' = success
               /\ gatewayCalls' = Append(gatewayCalls,
                      GatewayOp("setTokenWhitelist", 0, success, success))
               /\ spc' = "approval"
               /\ UNCHANGED spotResult
    /\ UNCHANGED <<positions, signalRows, spotTables, safeUsdc,
                   allowance, capitalInitialized, spotCalls, ssignal,
                   summaryUsdc, positionSize, storeBefore>>

\* auto-setup step 3: approveTokenForDex(safe, USDC, router).  A failed
\* approval is logged ("might already be approved") and the call goes on.
SpotApproval ==
    /\ spc = "approval"
    /\ \E success \in BOOLEAN :
          /\ allowance' = (allowance \/ success)
          /\ gatewayCalls' = Append(gatewayCalls,
                 GatewayOp("approveTokenForDex", 0, success,
                           allowance \/ success))
          /\ spc' = "trade"
          /\ UNCHANGED spotResult
    /\ UNCHANGED <<positions, signalRows, spotTables, safeUsdc,
                   tokenWhitelisted, capitalInitialized, spotCalls, ssignal,
                   summaryUsdc, positionSize, storeBefore>>

\* a submission that writes the proof of intent to the signals row before
\* the outcome of the trade is known
SpotTradeIntentFirst ==
    /\ spc = "trade"
    /\ signalRows' = [signalRows EXCEPT ![ssignal.id] =
                         [signalHash |-> <<"intent", spotCalls>>,
                          proofOfIntentTxHash |-> NoHash]]
    /\ \E success \in BOOLEAN :
          /\ success => tokenWhitelisted
          /\ gatewayCalls' = Append(gatewayCalls,
                 GatewayOp("executeTrade", AmountIn(positionSize), success,
                           success))
          /\ IF success
             THEN /\ spc' = "signalUpdate"
                  /\ safeUsdc' = safeUsdc - AmountIn(positionSize)
                  /\ capitalInitialized' = TRUE
                  /\ allowance' = TRUE
                  /\ UNCHANGED spotResult
             ELSE /\ SpotFails("Transaction submission failed")
                  /\ UNCHANGED <<safeUsdc, capitalInitialized, allowance>>
    /\ UNCHANGED <<positions, spotTables, tokenWhitelisted,
                   spotCalls, ssignal, summaryUsdc, positionSize,
                   storeBefore>>

\* moduleService.executeTrade: the module requires the token whitelisted
\* and approves the router itself; a revert comes back as success false
SpotTrade ==
    /\ spc = "trade"
    /\ \E success \in BOOLEAN :
          /\ success => tokenWhitelisted
          /\ gatewayCalls' = Append(gatewayCalls,
                 GatewayOp("executeTrade", AmountIn(positionSize), success,
                           success))
          /\ IF success
             THEN /\ spc' = "signalUpdate"
                  /\ safeUsdc' = safeUsdc - AmountIn(positionSize)
                  /\ capitalInitialized' = TRUE
                  /\ allowance' = TRUE
                  /\ UNCHANGED spotResult
             ELSE /\ SpotFails("Transaction submission failed")
                  /\ UNCHANGED <<safeUsdc, capitalInitialized, allowance>>
    /\ UNCHANGED <<positions, signalRows, spotTables, tokenWhitelisted,
                   spotCalls, ssignal, summaryUsdc, positionSize,
                   storeBefore>>

\* prisma.signal.update: signalHash, creatorAddress, proofOfIntentTxHash
SpotSignalUpdate ==
    /\ spc = "signalUpdate"
    /\ signalRows' = [signalRows EXCEPT ![ssignal.id] =
                         [signalHash |-> <<"intent", spotCalls>>,
                          proofOfIntentTxHash |-> TxHash(spotCalls, "d1")]]
    /\ spc' = "create"
    /\ UNCHANGED <<positions, spotTables, spotChain, spotCalls, ssignal,
                   summaryUsdc, positionSize, gatewayCalls, spotResult,
                   storeBefore>>

\* prisma.position.create; the unique index rejects a second row of the
\* pair and the catch returns the error
SpotCreate ==
    /\ spc = "create"
    /\ IF UniqueViolation("d1", ssignal.id)
       THEN SpotFails("error.message") /\ UNCHANGED positions
       ELSE /\ positions' = positions \cup
                  {NewPosition(NewId(spotCalls, "d1"), "d1", ssignal.id,
                               TxHash(spotCalls, "d1"), 5)}
            /\ SpotReturn(SpotResult(TRUE, "none", "none", "none"))
    /\ UNCHANGED <<signalRows, spotTables, spotChain, spotCalls, ssignal,
                   summaryUsdc, positionSize, gatewayCalls, storeBefore>>

\* signal.update or position.create throws
SpotStoreThrows ==
    /\ spc \in {"signalUpdate", "create"}
    /\ SpotFails("error.message")
    /\ UNCHANGED <<positions, signalRows, spotTables, spotChain, spotCalls,
                   ssignal, summaryUsdc, positionSize, gatewayCalls,
                   storeBefore>>

\* the tables and the chain an open call can meet
SpotInit ==
    /\ spc = "idle"
    /\ spotCalls = 0
    /\ ssignal = CHOOSE s \in SpotSignals : TRUE
    /\ summaryUsdc = 0
    /\ positionSize = 0
    /\ gatewayCalls = <<>>
    /\ spotResult = NoSpotResult
    /\ signalRows = [s \in Signals |-> NoProvenance]
    /\ storeBefore = <<{}, [s \in Signals |-> NoProvenance]>>
    /\ venueStatusRow \in BOOLEAN
    /\ tokenRegistryRow \in BOOLEAN
    /\ safeUsdc \in UsdcBalances
    /\ tokenWhitelisted \in BOOLEAN
    /\ allowance \in BOOLEAN
    /\ capitalInitialized \in BOOLEAN

SpotNext ==
    \/ executeSignalInternal /\ UNCHANGED spotFrame
    \/ SpotValidateSafe /\ UNCHANGED spotFrame
    \/ SpotPreTrade /\ UNCHANGED spotFrame
    \/ SpotPreTradeThrows /\ UNCHANGED spotFrame
    \/ routeToVenue /\ UNCHANGED spotFrame
    \/ SpotSizing /\ UNCHANGED spotFrame
    \/ SpotConfig /\ UNCHANGED spotFrame
    \/ SpotThrows /\ UNCHANGED spotFrame
    \/ SpotCapital /\ UNCHANGED spotFrame
    \/ SpotWhitelist /\ UNCHANGED spotFrame
    \/ SpotApproval /\ UNCHANGED spotFrame
    \/ SpotTrade /\ UNCHANGED spotFrame
    \/ SpotSignalUpdate /\ UNCHANGED spotFrame
    \/ SpotCreate /\ UNCHANGED spotFrame
    \/ SpotStoreThrows /\ UNCHANGED spotFrame

(***************************************************************************)
(* Telegram webhook: the confirm and cancel callbacks of one trade         *)
(***************************************************************************)
Callbacks == 1..NumCallbacks

tgVars == <<tradeStatus, tgpc, tgPassed, tgSignals, tgOpens, tgReply>>

TelegramIdle ==
    /\ tradeStatus = "pending"
    /\ tgpc = [c \in Callbacks |-> "idle"]
    /\ tgPassed = {}
    /\ tgSignals = {}
    /\ tgOpens = {}
    /\ tgReply = [c \in Callbacks |-> "none"]

\* an update by id alone, whatever the status of the row
CompareAndSetById(status) == TRUE

\* telegramTrade.update({ where: { id, status: 'pending' } }): the row is
\* found, and updated, only if its status is still pending
CompareAndSet(status) == status = "pending"

\* the callback is over with the message msg sent to the chat
TelegramReplies(c, msg) ==
    /\ tgpc' = [tgpc EXCEPT ![c] = "done"]
    /\ tgReply' = [tgReply EXCEPT ![c] = msg]

\* handleCallback: bot.answerCallback, then confirm_ or cancel_
handleCallback(c) ==
    /\ tgpc[c] = "idle"
    /\ \E data \in {"confirm", "cancel"} :
          tgpc' = [tgpc EXCEPT ![c] = data]
    /\ UNCHANGED <<tradeStatus, tgPassed, tgSignals, tgOpens, tgReply>>

\* cancel_: telegramTrade.update({ status: 'cancelled' }) by id
TelegramCancel(c) ==
    /\ tgpc[c] = "cancel"
    /\ tradeStatus' = "cancelled"
    /\ TelegramReplies(c, "Trade cancelled")
    /\ UNCHANGED <<tgPassed, tgSignals, tgOpens>>

\* executeTrade: the update from pending to executing; P2025 when no row
\* matches
TelegramConfirm(c) ==
    /\ tgpc[c] = "confirm"
    /\ IF CompareAndSet(tradeStatus)
       THEN /\ tradeStatus' = "executing"
            /\ tgPassed' = tgPassed \cup {c}
            /\ tgpc' = [tgpc EXCEPT ![c] = "createSignal"]
            /\ UNCHANGED tgReply
       ELSE /\ TelegramReplies(c, "Trade already processed or not found")
            /\ UNCHANGED <<tradeStatus, tgPassed>>
    /\ UNCHANGED <<tgSignals, tgOpens>>

\* prisma.signal.create, then executor.executeSignalForDeployment
TelegramCreateSignal(c) ==
    /\ tgpc[c] = "createSignal"
    /\ tgSignals' = tgSignals \cup {c}
    /\ tgpc' = [tgpc EXCEPT ![c] = "open"]
    /\ UNCHANGED <<tradeStatus, tgPassed, tgOpens, tgReply>>

\* executeSignalForDeployment returns its result
TelegramOpen(c) ==
    /\ tgpc[c] = "open"
    /\ tgOpens' = tgOpens \cup {c}
    /\ \E success \in BOOLEAN :
          tgpc' = [tgpc EXCEPT ![c] = IF success THEN "executed"
                                                 ELSE "failed"]
    /\ UNCHANGED <<tradeStatus, tgPassed, tgSignals, tgReply>>

\* telegramTrade.update({ status: 'executed' | 'failed' }) and the message
TelegramRecord(c) ==
    /\ tgpc[c] \in {"executed", "failed"}
    /\ tradeStatus' = tgpc[c]
    /\ TelegramReplies(c, IF tgpc[c] = "executed"
                          THEN "Trade executed successfully"
                          ELSE "Trade failed")
    /\ UNCHANGED <<tgPassed, tgSignals, tgOpens>>

\* a store access or a message of executeTrade throws: the outer catch
\* sends the error to the chat
TelegramThrows(c) ==
    /\ tgpc[c] \in {"confirm", "createSignal", "executed", "failed"}
    /\ TelegramReplies(c, "Error")
    /\ UNCHANGED <<tradeStatus, tgPassed, tgSignals, tgOpens>>

TelegramNext ==
    \/ \E c \in Callbacks : handleCallback(c) /\ UNCHANGED tgFrame
    \/ \E c \in Callbacks : TelegramCancel(c) /\ UNCHANGED tgFrame
    \/ \E c \in Callbacks : TelegramConfirm(c) /\ UNCHANGED tgFrame
    \/ \E c \in Callbacks : TelegramCreateSignal(c) /\ UNCHANGED tgFrame
    \/ \E c \in Callbacks : TelegramOpen(c) /\ UNCHANGED tgFrame
    \/ \E c \in Callbacks : TelegramRecord(c) /\ UNCHANGED tgFrame
    \/ \E c \in Callbacks : TelegramThrows(c) /\ UNCHANGED tgFrame

(***************************************************************************)
(* Trade worker: executeTradesForSignals, run after run, and the           *)
(* execute-trade endpoint it calls for each signal it selected.  The       *)
(* endpoint is an HTTP handler: an administrator can POST it as well.      *)
(* The open of a deployment is one step here: it creates the Position or   *)
(* fails.                                                                  *)
(***************************************************************************)
EndpointCallers == {"worker", "admin"}

\* the signals of the store, in the order of their createdAt: one more than
\* a run of the worker takes
SignalIds == <<"s1", "s2", "s3">>
WorkerSignals == {SignalIds[i] : i \in 1..(MaxTake + 1)}
CreatedAt(s) == CHOOSE i \in 1..Len(SignalIds) : SignalIds[i] = s

\* orderBy: { createdAt: 'asc' }, take: the n oldest of the signals S
TakeOldest(S, n) ==
    {s \in S : Cardinality({t \in S : CreatedAt(t) < CreatedAt(s)}) < n}

\* findMany of the worker: signals without any position, of an agent with
\* some deployment that is ACTIVE with the module enabled
PendingSignals ==
    {s \in WorkerSignals :
        /\ ~\E p \in positions : p.signalId = s
        /\ \E d \in Deployments : /\ deployments[d].status = "ACTIVE"
                                  /\ deployments[d].moduleEnabled}

WorkerIdle ==
    /\ wpc = "idle"
    /\ wqueue = {}
    /\ wtried = {}
    /\ epc = [c \in EndpointCallers |-> "idle"]
    /\ esig = [c \in EndpointCallers |-> "s1"]
    /\ epending = [c \in EndpointCallers |-> {}]

\* a run starts: the findMany
executeTradesForSignals ==
    /\ wpc = "idle"
    /\ wqueue' = TakeOldest(PendingSignals, MaxTake)
    /\ wpc' = IF PendingSignals = {} THEN "complete" ELSE "loop"
    /\ UNCHANGED <<positions, wtried, epc, esig, epending>>

\* the handler starts: it finds the deployments of the agent (the venue
\* minimum is taken as met)
EndpointCall(c, s) ==
    /\ epc[c] = "idle"
    /\ epc' = [epc EXCEPT ![c] = "loop"]
    /\ esig' = [esig EXCEPT ![c] = s]
    /\ epending' = [epending EXCEPT
                       ![c] = {d \in Deployments : EndpointEligible(d)}]

\* fetch POST execute-trade-once?signalId, awaited by the worker
WorkerFetch ==
    /\ wpc = "loop"
    /\ \E s \in wqueue :
          /\ wqueue' = wqueue \ {s}
          /\ EndpointCall("worker", s)
    /\ wpc' = "fetch"
    /\ UNCHANGED <<positions, wtried>>

\* a POST of the endpoint by an administrator
AdminPost ==
    /\ \E s \in WorkerSignals : EndpointCall("admin", s)
    /\ UNCHANGED <<positions, wpc, wqueue, wtried>>

\* the endpoint's loop finds a Position of the pair: continue
EndpointSkip(c) ==
    /\ epc[c] = "loop"
    /\ \E d \in epending[c] :
          /\ ExistingPosition(d, esig[c])
          /\ epending' = [epending EXCEPT ![c] = @ \ {d}]
    /\ UNCHANGED <<positions, wpc, wqueue, wtried, epc, esig>>

\* it finds none: executeSignalForDeployment, which creates the Position
\* or returns a failure
EndpointOpen(c) ==
    /\ epc[c] = "loop"
    /\ \E d \in epending[c] :
          /\ ~ExistingPosition(d, esig[c])
          /\ epending' = [epending EXCEPT ![c] = @ \ {d}]
          /\ wtried' = IF c = "worker" THEN wtried \cup {<<esig[c], d>>}
                        ELSE wtried
          /\ \E success \in BOOLEAN :
                positions' = IF success
                             THEN positions \cup
                                     {NewPosition(NewId(CreatedAt(esig[c]), d),
                                                  d, esig[c],
                                                  TxHash(CreatedAt(esig[c]), d),
                                                  5)}
                             ELSE positions
    /\ UNCHANGED <<wpc, wqueue, epc, esig>>

\* the response: the worker's loop goes on to its next signal, or its run
\* is over
EndpointResponse(c) ==
    /\ epc[c] = "loop"
    /\ epending[c] = {}
    /\ epc' = [epc EXCEPT ![c] = "idle"]
    /\ wpc' = IF c # "worker" THEN wpc
              ELSE IF wqueue = {} THEN "complete" ELSE "loop"
    /\ UNCHANGED <<positions, wqueue, wtried, esig, epending>>

\* run_worker_loop "trade-executor" ... 300: the next run
WorkerSleep ==
    /\ wpc = "complete"
    /\ wpc' = "idle"
    /\ wtried' = {}
    /\ UNCHANGED <<positions, wqueue, epc, esig, epending>>

WorkerInit ==
    /\ deployments \in [Deployments -> {HealthyDeployment, Paused,
                                        Unsubscribed}]
    /\ positions = {}
    /\ openTxs = {}
    /\ OpensIdle
    /\ CloseIdle
    /\ WorkerIdle

\* the steps of the worker and of the endpoint call it awaits
WorkerRun ==
    \/ executeTradesForSignals /\ UNCHANGED workerFrame
    \/ WorkerFetch /\ UNCHANGED workerFrame
    \/ EndpointSkip("worker") /\ UNCHANGED workerFrame
    \/ EndpointOpen("worker") /\ UNCHANGED workerFrame
    \/ EndpointResponse("worker") /\ UNCHANGED workerFrame
    \/ WorkerSleep /\ UNCHANGED workerFrame

WorkerNext ==
    \/ WorkerRun
    \/ AdminPost /\ UNCHANGED workerFrame
    \/ EndpointSkip("admin") /\ UNCHANGED workerFrame
    \/ EndpointOpen("admin") /\ UNCHANGED workerFrame
    \/ EndpointResponse("admin") /\ UNCHANGED workerFrame

(***************************************************************************)
(* MaxxitTradingModule.closePosition.  Solidity ^0.8.19: an overflow of a  *)
(* uint256 operation, a failed require and a failed Safe call revert the   *)
(* whole call.  Amounts are uint256 scaled to MaxUint.                     *)
(***************************************************************************)
EntryValues == {0, 100}

ModuleSwapOuts == {0, 4, 100, 104, 109, 120, 132, 140}

AgentCreators == {"creator", "safe", "zero"}

NoClose ==
    [called |-> FALSE, reverted |-> FALSE, agentCreator |-> "zero",
     entryValueUSDC |-> 0, amountOut |-> 0, transferred |-> 0,
     totalBefore |-> 0, creatorBefore |-> 0]

ModuleIdle ==
    /\ safeStats = [initialized |-> FALSE, totalProfitsShared |-> 0]
    /\ usdc = [a \in {"safe", "creator"} |-> 0]
    /\ moduleCalls = 0
    /\ lastClose = NoClose

\* profit * PROFIT_SHARE_BPS and totalProfitsShared += profitShare in
\* checked arithmetic
ShareOverflows(amountOut, entryValueUSDC, total) ==
    /\ amountOut > entryValueUSDC
    /\ \/ (amountOut - entryValueUSDC) * PROFIT_SHARE_BPS > MaxUint
       \/ total + ModuleProfitShare(amountOut, entryValueUSDC) > MaxUint

\* IERC20.transfer(agentCreator, amount) out of the Safe
UsdcTransfer(balances, to, amount) ==
    IF to = "safe" THEN balances
    ELSE [balances EXCEPT !["safe"] = @ - amount, ![to] = @ + amount]

\* closePosition(safe, tokenIn, amountIn, minAmountOut, poolFee,
\* agentCreator, entryValueUSDC) by the executor
closePosition ==
    /\ moduleCalls < MaxModuleCalls
    /\ moduleCalls' = moduleCalls + 1
    /\ \E agentCreator \in AgentCreators, entryValueUSDC \in EntryValues,
          swapOk \in BOOLEAN, out \in ModuleSwapOuts, transferOk \in BOOLEAN :
          LET profitShare == ModuleProfitShare(out, entryValueUSDC)
              reverted ==
                  \/ ~safeStats.initialized
                  \/ agentCreator = "zero"
                  \/ ~swapOk
                  \/ ShareOverflows(out, entryValueUSDC,
                                    safeStats.totalProfitsShared)
                  \/ profitShare > 0 /\ ~transferOk
              call == [called |-> TRUE, reverted |-> reverted,
                       agentCreator |-> agentCreator,
                       entryValueUSDC |-> entryValueUSDC,
                       amountOut |-> out,
                       transferred |-> IF reverted THEN 0 ELSE profitShare,
                       totalBefore |-> safeStats.totalProfitsShared,
                       creatorBefore |-> usdc["creator"]]
          IN  /\ lastClose' = call
              /\ IF reverted
                 THEN UNCHANGED <<safeStats, usdc>>
                 ELSE /\ usdc' = UsdcTransfer(
                                    [usdc EXCEPT !["safe"] = @ + out],
                                    agentCreator, profitShare)
                      /\ safeStats' =
                            [safeStats EXCEPT
                                !.totalProfitsShared = @ + profitShare]

\* the Safe's statistics are initialized: by the setup of the Safe or by
\* its first executeTrade
initializeSafe ==
    /\ ~safeStats.initialized
    /\ safeStats' = [safeStats EXCEPT !.initialized = TRUE]
    /\ UNCHANGED <<usdc, moduleCalls, lastClose>>

ModuleInit ==
    /\ safeStats \in {[initialized |-> i, totalProfitsShared |-> t] :
                         i \in BOOLEAN, t \in {0, MaxUint - 3}}
    /\ usdc = [a \in {"safe", "creator"} |-> 0]
    /\ moduleCalls = 0
    /\ lastClose = NoClose

ModuleNext ==
    \/ closePosition /\ UNCHANGED moduleFrame
    \/ initializeSafe /\ UNCHANGED moduleFrame

(***************************************************************************)
(* The nonce stream of one process over many operations: an operation      *)
(* that has returned is followed by the next one of its caller, and the    *)
(* chain includes a submitted transaction when its nonce is the count of   *)
(* its address.  The chain reads succeed here.                             *)
(***************************************************************************)
\* the nonces issued so far
Acquisitions == Len(issued["exec1"]) + Len(issued["exec2"])

\* the next operation of a caller: an approval or a close, each with
\* const nonce = await this.getNextNonce()
NextOperation(c) ==
    /\ Acquisitions < MaxAcquisitions
    /\ gop[c] = "none"
    /\ \E op \in {"approveTokenForDex", "closePosition"} :
          gop' = [gop EXCEPT ![c] = op]
    /\ getNextNonce(c)
    /\ UNCHANGED <<sent, gresult>>

\* the operation has returned its result to its caller
OperationReturns(c) ==
    /\ npc[c] = "done"
    /\ npc' = [npc EXCEPT ![c] = "idle"]
    /\ gop' = [gop EXCEPT ![c] = "none"]
    /\ gresult' = [gresult EXCEPT ![c] = "none"]
    /\ UNCHANGED <<nonceTracker, nonceLocks, chainCount, nident, nwait,
                   nlocal, issued, issuedNet, resetSeen, nfresh, issuedFirst,
                   sent>>

\* the chain includes the submitted transaction whose nonce is the count
\* of the address
ChainIncludes(a) ==
    /\ \E i \in 1..Len(sent[a]) : sent[a][i].nonce = chainCount[a]
    /\ chainCount' = [chainCount EXCEPT ![a] = @ + 1]
    /\ UNCHANGED <<nonceTracker, nonceLocks, npc, nident, nwait, nlocal,
                   issued, issuedNet, resetSeen, nfresh, issuedFirst,
                   gop, sent, gresult>>

\* tx.wait() resolves once the transaction is included
IncludedReceipt(c) ==
    /\ nlocal[c] < chainCount[nident[c]]
    /\ GatewayReceipt(c)

NonceGapNext ==
    \/ \E c \in GatewayCallers : NextOperation(c) /\ UNCHANGED <<extVars, openVars, closeVars>>
    \/ \E c \in Callers : AfterSleep(c) /\ UNCHANGED <<extVars, gatewayVars, openVars, closeVars>>
    \/ \E c \in Callers : ChainReadReturns(c) /\ UNCHANGED <<extVars, gatewayVars, openVars, closeVars>>
    \/ \E c \in GatewayCallers : SendTransaction(c) /\ UNCHANGED <<extVars, openVars, closeVars>>
    \/ \E c \in GatewayCallers : SendThrows(c) /\ UNCHANGED <<extVars, openVars, closeVars>>
    \/ \E a \in Identities : ChainIncludes(a) /\ UNCHANGED <<extVars, openVars, closeVars>>
    \/ \E c \in GatewayCallers : IncludedReceipt(c) /\ UNCHANGED <<extVars, openVars, closeVars>>
    \/ \E c \in GatewayCallers : OperationReturns(c) /\ UNCHANGED <<extVars, openVars, closeVars>>

\* the signal of the o-th open of a deployment
SignalOfOpen(o) == IF o = 1 THEN "s1" ELSE "s2"

\* two open positions of the one token of the model in the Safe of d1, each
\* of a signal of its own, opened with 5 tokens, with a take profit at 1050,
\* after the cycles of the monitor in which no price was available
SameSafeInit ==
    /\ deployments = [d \in Deployments |-> HealthyDeployment]
    /\ positions = {[OpenedPosition(o, "d1", "auto", Null)
                        EXCEPT !.takeProfit = 1050,
                               !.signalId = SignalOfOpen(o)] : o \in {1, 2}}
    /\ quotes = {Null, 1060}
    /\ swapOuts = {5000}
    /\ openTxs = {[OpenedTx(p.id[2], p.deploymentId)
                      EXCEPT !.sig = p.signalId] : p \in positions}
    /\ OpensIdle
    /\ safeBalance = [d \in Deployments |->
                         5 * Cardinality({p \in positions :
                                             p.deploymentId = d})]
    /\ closeTxs = {}
    /\ billingEvents = {}
    /\ closeUpdates = {}
    /\ cpc = [k \in Clients |-> "idle"]
    /\ ckind = [k \in Clients |-> "none"]
    /\ cqueue = [k \in Clients |-> {}]
    /\ csnap = [k \in Clients |-> NoPosition]
    /\ cprice = [k \in Clients |-> Null]
    /\ camount = [k \in Clients |-> 0]
    /\ cexit = [k \in Clients |-> Null]
    /\ cresult = [k \in Clients |-> "none"]
    /\ closedCount = [k \in Clients |-> 0]
    /\ mcycle = [k \in Clients |-> IF k = Monitor THEN MaxCycles - 2 ELSE 0]
    /\ evals = [id \in PositionIds |-> <<>>]

\* riskModel: { stopLoss: 0.05, takeProfit: 0.15 } of a generated signal:
\* the number 0.15, in the hundredths the prices are counted in here
GeneratedTakeProfit == 15

\* the Position the open creates from a generated signal (side LONG, no
\* take profit on the row, the trailing stop enabled), entered at 10.00,
\* with the prices 9.90 and 10.10 of the monitor's runs
GeneratedInit ==
    /\ deployments = [d \in Deployments |-> HealthyDeployment]
    /\ positions = {WatchedPosition("LONG", TRUE, Null, GeneratedTakeProfit)}
    /\ quotes = {Null, 990, 1010}
    /\ swapOuts = {5000}
    /\ openTxs = {OpenedTx(p.id[2], p.deploymentId) : p \in positions}
    /\ OpensIdle
    /\ safeBalance = [d \in Deployments |->
                         IF \E p \in positions : p.deploymentId = d
                         THEN 5 ELSE 0]
    /\ closeTxs = {}
    /\ billingEvents = {}
    /\ closeUpdates = {}
    /\ ClientsIdle

\* the initial states of the three parts of the model
InitNonce ==
    /\ NonceInit
    /\ deployments = [d \in Deployments |-> HealthyDeployment]
    /\ OpenIdle
    /\ CloseIdle
    /\ SpotIdle
    /\ TelegramIdle
    /\ WorkerIdle
    /\ ModuleIdle

InitOpen == NonceInit /\ OpenInit /\ SpotIdle /\ TelegramIdle /\ WorkerIdle
    /\ ModuleIdle

InitClose == NonceInit /\ CloseInit /\ SpotIdle /\ TelegramIdle /\ WorkerIdle
    /\ ModuleIdle

InitMonitor == NonceInit /\ MonitorInit /\ SpotIdle /\ TelegramIdle /\ WorkerIdle
    /\ ModuleIdle

InitSameSafe == NonceInit /\ SameSafeInit /\ SpotIdle /\ TelegramIdle /\ WorkerIdle
    /\ ModuleIdle

InitGenerated == NonceInit /\ GeneratedInit /\ SpotIdle /\ TelegramIdle /\ WorkerIdle
    /\ ModuleIdle

InitSpot ==
    /\ NonceInit
    /\ deployments = [d \in Deployments |-> HealthyDeployment]
    /\ OpenIdle
    /\ CloseIdle
    /\ SpotInit
    /\ TelegramIdle
    /\ WorkerIdle
    /\ ModuleIdle

InitWorker ==
    NonceInit /\ WorkerInit /\ SpotIdle /\ TelegramIdle /\ ModuleIdle

InitModule ==
    /\ NonceInit
    /\ deployments = [d \in Deployments |-> HealthyDeployment]
    /\ OpenIdle
    /\ CloseIdle
    /\ SpotIdle
    /\ TelegramIdle
    /\ WorkerIdle
    /\ ModuleInit

InitTelegram ==
    /\ NonceInit
    /\ deployments = [d \in Deployments |-> HealthyDeployment]
    /\ OpenIdle
    /\ CloseIdle
    /\ SpotIdle
    /\ TelegramIdle
    /\ WorkerIdle
    /\ ModuleIdle

SpecNonce == InitNonce /\ [][NonceNext]_vars

\* The timer of a sleeping call fires, and a chain read that was started
\* ends, by returning or by throwing.
NonceFairness ==
    \A c \in Callers :
        /\ WF_vars(AfterSleep(c) /\ UNCHANGED <<extVars, gatewayVars, openVars, closeVars>>)
        /\ WF_vars((ChainReadReturns(c) \/ ChainReadThrows(c))
                      /\ UNCHANGED <<extVars, gatewayVars, openVars, closeVars>>)

SpecNonceLive == InitNonce /\ [][NonceNext]_vars /\ NonceFairness

SpecGateway == InitNonce /\ [][GatewayNext]_vars

SpecNonceReset == InitNonce /\ [][NonceResetNext]_vars

\* every await returns, the chain goes on including what it can, and the
\* callers go on with their next operations
SpecNonceGap == InitNonce /\ [][NonceGapNext]_vars /\ WF_vars(NonceGapNext)

SpecOpen == InitOpen /\ [][OpenNext]_vars

SpecClose == InitClose /\ [][CloseNext]_vars

SpecCloseSeq == InitClose /\ [][CloseSeqNext]_vars

SpecMonitor == InitMonitor /\ [][MonitorNext]_vars

\* the monitor over two positions held in one Safe
SpecSameSafe == InitSameSafe /\ [][MonitorNext]_vars

\* the monitor over the Position of a generated signal
SpecGenerated == InitGenerated /\ [][MonitorNext]_vars

SpecSpot == InitSpot /\ [][SpotNext]_vars

SpecTelegram == InitTelegram /\ [][TelegramNext]_vars

\* the webhook with every callback handled to its end: the server runs each
\* handler until it returns
SpecTelegramLive == InitTelegram /\ [][TelegramNext]_vars /\ WF_vars(TelegramNext)

SpecModule == InitModule /\ [][ModuleNext]_vars

\* the worker is started again every 300 seconds by run_worker_loop, and
\* each await of a run returns; nobody has to POST the endpoint by hand
SpecWorker == InitWorker /\ [][WorkerNext]_vars /\ WF_vars(WorkerRun)

(***************************************************************************)
(* Claims about the open path (SpecOpen)                                   *)
(***************************************************************************)
\* C1: in every reachable state there is at most one Position for a
\* (deployment, signal) pair, also when several open invocations for the
\* pair run concurrently.
C1_UniquePositionPerPair ==
    \A p \in positions : \A q \in positions :
        (p.deploymentId = q.deploymentId /\ p.signalId = q.signalId)
            => p.id = q.id

\* two invocations raced for one pair: one inserted, the unique index
\* rejected the other
C1_Witness ==
    \E o \in Opens : \E p \in positions :
        /\ ooutcome[o] = "duplicate"
        /\ p.signalId = osig[o]
        /\ p.id[2] # o

\* C2: concurrent open invocations for the same (deployment, signal) pair
\* never produce a double trade: at most one on-chain open transaction is
\* submitted for the pair.
C2_AtMostOneOpenTxPerPair ==
    \A t \in openTxs : \A u \in openTxs :
        (t.dep = u.dep /\ t.sig = u.sig) => t.hash = u.hash

\* C3: of the open invocations racing for a pair, each one that loses the
\* insert to the duplicate-key failure is reported as AlreadyExecuted, not
\* as an ordinary error.
C3_DuplicateReportedAlreadyExecuted ==
    \A o \in Opens :
        ooutcome[o] = "duplicate" => oresult[o].error = "AlreadyExecuted"

\* C4: an open submits an on-chain trade for a deployment only if, at that
\* time, the deployment is ACTIVE, its subscription is active and the module
\* is enabled on the Safe on-chain, on every entry path.
C4_TradeOnlyWhenGated ==
    \A t \in openTxs :
        /\ t.gate.status = "ACTIVE"
        /\ t.gate.subActive
        /\ t.gate.chainModuleEnabled

\* C5: a Position exists only if the on-chain open of its pair was
\* confirmed: its entryTxHash is the hash of that confirmed transaction and
\* it is created open (closedAt null); no pending or failed open is ever
\* persisted as a Position.
C5_PositionOnlyForConfirmedOpen ==
    \A p \in positions :
        /\ p.closedAt = Null
        /\ \E t \in openTxs :
              /\ t.hash = p.entryTxHash
              /\ t.status = "confirmed"
              /\ t.dep = p.deploymentId
              /\ t.sig = p.signalId

\* a Position was created while another open of the model had reverted
C5_Witness ==
    /\ positions # {}
    /\ \E t \in openTxs : t.status = "reverted"

(***************************************************************************)
(* Claims about the close path (SpecCloseSeq, SpecClose)                   *)
(***************************************************************************)
CloseWritesOf(id) == {u \in closeUpdates : u[1] = id}
BillingEventsOf(id) == {b \in billingEvents : b.positionId = id}

\* C6: with the closePosition calls on a position in sequence, the closed
\* state is written once (closedAt and the exit transaction hash set, at
\* most one billing record), and a call that finds the position closed is
\* a no-op: it returns the already-closed result, submits no transaction
\* and changes neither the Position nor the billing records.
C6_SecondCloseIsNoOp ==
    [][/\ \A k \in Clients :
             (/\ cpc[k] = "load"
              /\ cpc'[k] # "load"
              /\ PositionById(csnap[k].id).closedAt # Null)
                 => /\ cresult'[k] = "alreadyClosed"
                    /\ positions' = positions
                    /\ closeTxs' = closeTxs
                    /\ billingEvents' = billingEvents
                    /\ closeUpdates' = closeUpdates
       /\ \A p \in positions' :
             /\ Cardinality(CloseWritesOf(p.id)') <= 1
             /\ Cardinality(BillingEventsOf(p.id)') <= 1
             /\ p.closedAt # Null =>
                   /\ p.exitTxHash # NoHash
                   /\ Cardinality(CloseWritesOf(p.id)') = 1
      ]_vars

\* the one position of the store was closed by one client, and the call
\* of the other client on it came back as already closed
C6_Witness ==
    /\ Cardinality(positions) = 1
    /\ \E p \in positions : \E k \in Clients :
          /\ p.closedAt # Null
          /\ cresult[k] = "alreadyClosed"
          /\ <<p.id, k>> \notin closeUpdates
          /\ \A t \in closeTxs : t.hash # CloseTxHash(k, p.id)

\* C7: each position is closed exactly once: of the close transactions
\* sent for one position at most one is in flight or confirmed, and its
\* closed state is written at most once, whatever the interleaving of the
\* closePosition calls.
C7_ClosedExactlyOnce ==
    \A p \in positions :
        /\ Cardinality({t \in closeTxs : /\ t.positionId = p.id
                                         /\ t.status # "reverted"}) <= 1
        /\ Cardinality(CloseWritesOf(p.id)) <= 1

\* C8: once closedAt of a Position is non-null, no step changes any field
\* of that Position.
C8_ClosedPositionFrozen ==
    [][\A p \in positions : p.closedAt # Null => p \in positions']_vars

(***************************************************************************)
(* Claims about the nonce coordinator (SpecNonce)                          *)
(***************************************************************************)
InCriticalSection(c) == npc[c] \in {"fetchFirst", "fetchCheck"}

\* C9: the nonces returned for one executor address are strictly
\* increasing in acquisition order, none is returned twice, and a value
\* is skipped only when the chain's own count is ahead.
C9_NoncesStrictlyIncreasing ==
    \A a \in Identities : \A i \in 2..Len(issued[a]) :
        /\ issued[a][i] > issued[a][i - 1]
        /\ \/ issued[a][i] = issued[a][i - 1] + 1
           \/ issued[a][i] = issuedNet[a][i]

\* three concurrent calls on one address have returned, one of them past
\* a jump of the chain count
C9_Witness ==
    \E a \in Identities :
        /\ Len(issued[a]) >= 3
        /\ \E i \in 2..Len(issued[a]) : issued[a][i] > issued[a][i - 1] + 1
        /\ \E i \in 2..Len(issued[a]) : issued[a][i] = issued[a][i - 1] + 1

SentBy(c) ==
    {a \in Identities : \E i \in 1..Len(sent[a]) : sent[a][i].caller = c}

\* C13: when the chain count read of getNextNonce throws, the cached nonce
\* of the address is left as it was, the error reaches the gateway
\* operation, which returns success = false, and the operation submits no
\* transaction, then or later.
C13_AcquisitionErrorSubmitsNothing ==
    [][\A c \in GatewayCallers :
          /\ (npc[c] \in {"fetchFirst", "fetchCheck"} /\ npc'[c] = "threw")
                => nonceTracker' = nonceTracker
          /\ (npc[c] = "threw" /\ npc'[c] # "threw")
                => /\ npc'[c] = "caught"
                   /\ gresult'[c] = "failure"
          /\ npc[c] \in {"threw", "caught"}
                => /\ SentBy(c) = {}
                   /\ SentBy(c)' = {}
                   /\ npc'[c] \in {"threw", "caught"}]_vars

\* an operation whose acquisition threw after an earlier call had cached a
\* nonce has returned its failure
C13_Witness ==
    \E c \in GatewayCallers :
        /\ npc[c] = "caught"
        /\ gresult[c] = "failure"
        /\ nonceTracker[nident[c]] # Undefined
        /\ sent[nident[c]] = <<>>

\* C14: every transaction a gateway operation submits carries an explicit
\* gas limit and the nonce getNextNonce returned to that invocation.
C14_ExplicitGasAndNonce ==
    \A a \in Identities : \A i \in 1..Len(sent[a]) :
        /\ sent[a][i].gasLimit # Estimated
        /\ sent[a][i].nonce # Implicit
        /\ sent[a][i].nonce = nlocal[sent[a][i].caller]

\* C15: the transactions of one address are submitted in strictly
\* increasing order of the nonces getNextNonce issued to them.
C15_SubmittedInNonceOrder ==
    \A a \in Identities : \A i, j \in 1..Len(sent[a]) :
        (/\ i < j
         /\ sent[a][i].nonce # Implicit
         /\ sent[a][j].nonce # Implicit)
            => sent[a][i].nonce < sent[a][j].nonce

\* the highest price the monitor has had for the position up to its i-th
\* evaluation, the entry price included
RECURSIVE HighestSeen(_, _)
HighestSeen(id, i) ==
    IF i = 0 THEN PositionById(id).entryPrice
    ELSE Max(HighestSeen(id, i - 1), evals[id][i].price)

\* the lowest price it has had up to then
RECURSIVE LowestSeen(_, _)
LowestSeen(id, i) ==
    IF i = 0 THEN PositionById(id).entryPrice
    ELSE Min(LowestSeen(id, i - 1), evals[id][i].price)

\* the trailing rule at the i-th evaluation of the position: the mark has
\* reached the activation level (3 % above the entry for a long, below it
\* for a short) and the price is trailingPercent or more off the mark
TrailingRule(id, i) ==
    LET position == PositionById(id)
        E == position.entryPrice
        pct == position.trailingPercent
        price == evals[id][i].price
    IN IF IsLong(position)
       THEN /\ HighestSeen(id, i) * 100 >= E * 103
            /\ price * 100 <= HighestSeen(id, i) * (100 - pct)
       ELSE /\ LowestSeen(id, i) * 100 <= E * 97
            /\ price * 100 >= LowestSeen(id, i) * (100 + pct)

\* the positions a monitor run has evaluated
Evaluated == {id \in PositionIds : evals[id] # <<>>}

\* the positions with the trailing stop enabled and no take profit
TrailingOnly ==
    {id \in Evaluated : /\ PositionById(id).trailingEnabled
                        /\ TakeProfitOf(PositionById(id)) = Null}

C17_TakeProfitBoundary ==
    \A id \in Evaluated : \A i \in 1..Len(evals[id]) :
        LET position == PositionById(id)
            T == TakeProfitOf(position)
            price == evals[id][i].price
        IN (evals[id][i].reason = "TAKE_PROFIT")
              <=> /\ evals[id][i].reason # "TRAILING_STOP"
                  /\ T # Null
                  /\ IF IsLong(position) THEN price >= T ELSE price <= T

\* a long was evaluated below its take profit without a trigger and at
\* exactly its take profit with TAKE_PROFIT
C17_Witness ==
    \E id \in Evaluated : \E i, j \in 1..Len(evals[id]) :
        /\ IsLong(PositionById(id))
        /\ evals[id][i].price < TakeProfitOf(PositionById(id))
        /\ evals[id][i].reason = ""
        /\ evals[id][j].price = TakeProfitOf(PositionById(id))
        /\ evals[id][j].reason = "TAKE_PROFIT"

\* C18: a monitor run evaluates a position at most once and calls
\* closePosition for it at most once: exactly once if the evaluation came
\* to a close reason, never otherwise; if the trailing stop triggered, the
\* reason is TRAILING_STOP whatever the take profit.
C18_OneCloseAttemptPerCycle ==
    \A id \in Evaluated : \A i \in 1..Len(evals[id]) :
        /\ \A j \in 1..Len(evals[id]) :
              (evals[id][j].by = evals[id][i].by
                  /\ evals[id][j].run = evals[id][i].run) => j = i
        /\ evals[id][i].calls <= 1
        /\ evals[id][i].result # "pending"
              => evals[id][i].calls = IF evals[id][i].reason = "" THEN 0 ELSE 1
        /\ (PositionById(id).trailingEnabled /\ TrailingRule(id, i))
              => evals[id][i].reason = "TRAILING_STOP"

\* the trailing stop and the take profit were both hit: TRAILING_STOP, and
\* one closePosition call, which has returned
C18_Witness ==
    \E id \in Evaluated : \E i \in 1..Len(evals[id]) :
        /\ TrailingRule(id, i)
        /\ TakeProfitOf(PositionById(id)) # Null
        /\ evals[id][i].price >= TakeProfitOf(PositionById(id))
        /\ IsLong(PositionById(id))
        /\ evals[id][i].reason = "TRAILING_STOP"
        /\ evals[id][i].calls = 1
        /\ evals[id][i].result \notin {"pending", "healthy"}

\* C19: without a price the monitor skips the position for the cycle: no
\* evaluation is made with an unavailable price, and the skipping step
\* writes no mark, sends no close transaction and goes on with the loop.
C19_NoPriceSkips ==
    /\ [](\A id \in Evaluated : \A i \in 1..Len(evals[id]) :
             evals[id][i].price # Null)
    /\ [][(/\ cpc[Monitor] = "next"
           /\ cqueue'[Monitor] # cqueue[Monitor]
           /\ cresult'[Monitor] = "skipped")
            => /\ positions' = positions
               /\ closeTxs' = closeTxs
               /\ evals' = evals
               /\ cpc'[Monitor] \in {"next", "done"}]_vars

\* a run skipped a position whose mark an earlier run had raised
C19_Witness ==
    \E p \in positions :
        /\ cresult[Monitor] = "skipped"
        /\ p.closedAt = Null
        /\ p.highestPrice # Null
        /\ mcycle[Monitor] > Len(evals[p.id])

\* how a closePosition call that returned success: false ended
CloseFailures ==
    {"alreadyClosed", "noBalance", "setupFailed", "txFailed", "storeError"}

\* the close calls of the monitor's current run that returned success
SucceededThisRun ==
    {id \in Evaluated :
        \E i \in 1..Len(evals[id]) :
            /\ evals[id][i].by = Monitor
            /\ evals[id][i].run = mcycle[Monitor]
            /\ evals[id][i].result = "success"}

\* C20: the closed count of a run is the number of its close calls that
\* returned success; a close call that fails writes nothing to the
\* positions and leaves the count; and each run reads every position whose
\* closedAt is null, the one whose close failed included.
C20_FailedCloseStaysOpen ==
    /\ [](closedCount[Monitor] = Cardinality(SucceededThisRun))
    /\ [][(InClosePosition(Monitor) /\ cresult'[Monitor] \in CloseFailures)
            => /\ positions' = positions
               /\ PositionById(csnap[Monitor].id).closedAt = Null
               /\ closedCount' = closedCount]_vars
    /\ [][(cpc[Monitor] = "idle" /\ cpc'[Monitor] # "idle")
            => cqueue'[Monitor] = {p \in positions : p.closedAt = Null}]_vars

\* the close of the first run failed, and the second run has read the
\* position again
C20_Witness ==
    \E p \in positions :
        /\ mcycle[Monitor] = 2
        /\ p \in cqueue[Monitor]
        /\ p.closedAt = Null
        /\ Len(evals[p.id]) = 1
        /\ evals[p.id][1].result \in CloseFailures
        /\ closedCount[Monitor] = 0

\* the call has got past the sizing of executeSpotTrade
Sized == positionSize # 0

\* the ExecutionResult of a pre-trade rejection for a missing venue record
VenueUnavailable(result) ==
    /\ ~result.success
    /\ result.canExecute = "false"
    /\ result.reason = "not available on venue"

\* C21: for a signal whose (venue, token) has no venue_status row, an open
\* call never succeeds, invokes no gateway operation and creates no
\* Position; once Safe validation has passed and no read has thrown, what
\* it returns is canExecute = false with the not-available-on-venue reason
C21_NoVenueRecordNoTrade ==
    ~venueStatusRow =>
        /\ gatewayCalls = <<>>
        /\ positions = {}
        /\ ~spotResult.success
        /\ (/\ spc = "done"
            /\ spotResult.error # "Safe wallet validation failed"
            /\ spotResult.error # "error.message"
            /\ spotResult.reason # "error.message")
              => VenueUnavailable(spotResult)

C21_Witness ==
    /\ spc = "done"
    /\ ~venueStatusRow
    /\ tokenRegistryRow
    /\ safeUsdc = 10000
    /\ ssignal.sizeModel.value = 5
    /\ VenueUnavailable(spotResult)
    /\ gatewayCalls = <<>>

\* C22: the position size is balance * value / 100 for a percentage model
\* (1000 USDC at 5 gives 50) and exactly the value for a fixed amount (30
\* gives 30); a fixed amount above the balance is rejected as insufficient
\* balance with no gateway operation invoked, and is never cut down to the
\* balance
C22_PositionSizeComputation ==
    /\ PositionSizing([type |-> "balance-percentage", value |-> 5], 100000)
          = 5000 * 100
    /\ PositionSizing([type |-> "fixed-usdc", value |-> 3000], 100000)
          = 3000 * 100
    /\ SizingCheck([type |-> "fixed-usdc", value |-> 200000],
                   PositionSizing([type |-> "fixed-usdc", value |-> 200000],
                                  100000), 100000) = "Insufficient balance"
    /\ (Sized /\ ssignal.sizeModel.type = "balance-percentage")
          => positionSize = summaryUsdc * ssignal.sizeModel.value
    /\ (Sized /\ ssignal.sizeModel.type = "fixed-usdc")
          => positionSize = ssignal.sizeModel.value * 100
    /\ (Sized /\ ssignal.sizeModel.type = "fixed-usdc"
              /\ ssignal.sizeModel.value > summaryUsdc)
          => /\ spc = "done"
             /\ ~spotResult.success
             /\ spotResult.error = "Insufficient balance"
             /\ gatewayCalls = <<>>
             /\ positions = storeBefore[1]
    /\ \A i \in 1..Len(gatewayCalls) :
          gatewayCalls[i].op = "executeTrade"
             => /\ gatewayCalls[i].amountIn = AmountIn(positionSize)
                /\ positionSize <= summaryUsdc * 100

C22_Witness ==
    /\ spc = "done"
    /\ ssignal.sizeModel = [type |-> "fixed-usdc", value |-> 20000]
    /\ summaryUsdc = 10000
    /\ positionSize = 20000 * 100
    /\ spotResult.error = "Insufficient balance"

\* the trade transaction of the call has been confirmed
TradeConfirmed ==
    \E i \in 1..Len(gatewayCalls) :
        gatewayCalls[i].op = "executeTrade" /\ gatewayCalls[i].success

\* C23: while the trade of an open call has not been confirmed, the store
\* is as the call found it (no Position created, the provenance fields of
\* the signal not written), and a call that ends there (a failed
\* validation, summary, lookup, sizing, missing key or router, or a failed
\* trade submission) returns success = false
C23_FailedOpenLeavesStore ==
    ~TradeConfirmed =>
        /\ positions = storeBefore[1]
        /\ signalRows = storeBefore[2]
        /\ spc = "done" => ~spotResult.success

\* a second call fails at the trade submission and leaves the Position and
\* the provenance of the first call as they were
C23_Witness ==
    /\ spc = "done"
    /\ spotCalls = 2
    /\ positions # {}
    /\ signalRows["s1"] # NoProvenance
    /\ gatewayCalls # <<>>
    /\ gatewayCalls[Len(gatewayCalls)] =
          GatewayOp("executeTrade", AmountIn(positionSize), FALSE, FALSE)
    /\ spotResult.error = "Transaction submission failed"
    /\ positions = storeBefore[1]
    /\ signalRows = storeBefore[2]

\* C24: a whitelist or approval transaction of the auto-setup that failed
\* with its end-state not holding (token not whitelisted, no allowance) is
\* never followed, in the same call, by the trade transaction
C24_FailedSetupStopsTrade ==
    \A i \in 1..Len(gatewayCalls) :
        (/\ gatewayCalls[i].op \in {"setTokenWhitelist", "approveTokenForDex"}
         /\ ~gatewayCalls[i].success
         /\ ~gatewayCalls[i].holds)
           => \A j \in (i + 1)..Len(gatewayCalls) :
                  gatewayCalls[j].op # "executeTrade"

\* no close call is between its position.update and its billingEvent.create
\* for the row id
BillingSettled(id) ==
    \A k \in Clients : cpc[k] = "billing" => csnap[k].id # id

\* C25: a position has at most one PROFIT_SHARE billing entry; it has none
\* while it is open (a failed close creates none), and once a close has
\* succeeded it has exactly one if its realized pnl is positive and none
\* otherwise
C25_OneBillingEntryIffProfit ==
    \A p \in positions :
        /\ Cardinality(BillingEventsOf(p.id)) <= 1
        /\ p.closedAt = Null => BillingEventsOf(p.id) = {}
        /\ (p.closedAt # Null /\ BillingSettled(p.id))
              => Cardinality(BillingEventsOf(p.id)) =
                    IF p.pnl > 0 THEN 1 ELSE 0

\* the close call that sent the transaction tx has returned
CloseCallOver(tx) ==
    \A k \in Clients :
        cpc[k] \in {"awaitClose", "writeClosed", "billing"}
           => CloseTxHash(k, csnap[k].id) # tx.hash

\* C26: the billing ledger mirrors the module: once a close call is over,
\* its confirmed transaction has a PROFIT_SHARE entry if and only if the
\* module distributed a profit share in it (amountOut above the
\* entryValueUSDC it was given), and the entry's amount is that share
C26_LedgerMirrorsModule ==
    \A tx \in closeTxs :
        (tx.status = "confirmed" /\ CloseCallOver(tx))
           => LET entries == {b \in billingEvents : b.txHash = tx.hash}
              IN /\ (entries # {}) <=> (tx.profitShare > 0)
                 /\ \A b \in entries : b.amount = tx.profitShare

\* how a step of a monitor run or a close command can end
LoopResults ==
    CloseFailures \cup {"none", "success", "skipped", "healthy",
                        "monitorError"}

C28_ManualTradeAtMostOnce ==
    /\ Cardinality(tgPassed) <= 1
    /\ Cardinality(tgSignals) <= 1
    /\ Cardinality(tgOpens) <= 1
    /\ tgOpens \subseteq tgSignals
    /\ tgSignals \subseteq tgPassed
    /\ \A c \in Callbacks \ tgPassed :
          (tgpc[c] = "done" /\ tgReply[c] \notin {"Trade cancelled", "Error"})
             => tgReply[c] = "Trade already processed or not found"

C28_Witness ==
    /\ tgPassed = {2}
    /\ tgOpens = {2}
    /\ tradeStatus = "executed"
    /\ \A c \in {1, 3} :
          /\ tgpc[c] = "done"
          /\ tgReply[c] = "Trade already processed or not found"

\* C29: a deployment that is eligible for the signal and has no Position
\* for it when a run of the trade worker is about to start has its open
\* attempted in that run, also when another deployment of the agent
\* already has its Position
C29_FailedOpenRetriedNextRun ==
    \A d \in Deployments :
        (/\ wpc = "idle"
         /\ EndpointEligible(d)
         /\ ~ExistingPosition(d, "s1"))
           ~> (<<"s1", d>> \in wtried)

MarkMonotone ==
    \A p \in positions : \A q \in positions' :
        q.id = p.id =>
            /\ (IsLong(p) /\ p.highestPrice # Null)
                  => (q.highestPrice # Null
                         /\ q.highestPrice >= p.highestPrice)
            /\ (~IsLong(p) /\ p.lowestPrice # Null)
                  => (q.lowestPrice # Null
                         /\ q.lowestPrice <= p.lowestPrice)

\* the persisted mark of every evaluated position with trailing enabled
\* is the highest (long) or lowest (short) price of its evaluations
MarkPersisted ==
    \A id \in Evaluated :
        LET position == PositionById(id)
            n == Len(evals[id])
        IN position.trailingEnabled =>
              IF IsLong(position)
              THEN HighestPrice(position) = HighestSeen(id, n)
              ELSE LowestPrice(position) = LowestSeen(id, n)

\* C31: after every evaluation of a monitor cycle (one whose store update
\* did not throw) the persisted mark of the position is the highest price
\* a long, the lowest price a short, has been evaluated at, whether or not
\* the stop was active or triggered; and no step lowers the persisted
\* highestPrice of a long or raises the persisted lowestPrice of a short
C31_HighWaterMarkPersistedMonotone ==
    []MarkPersisted /\ [][MarkMonotone]_vars

\* a long at entry 1000 was evaluated at 1019: the stop is inactive, nothing
\* triggered, and 1019 is the persisted mark
C31_Witness ==
    \E id \in Evaluated :
        LET position == PositionById(id)
            n == Len(evals[id])
        IN /\ IsLong(position)
           /\ position.trailingEnabled
           /\ evals[id][n].price = 1019
           /\ evals[id][n].reason = ""
           /\ position.highestPrice = 1019
           /\ position.closedAt = Null

\* C32: on a Safe whose capital is initialized, whose token is whitelisted
\* and whose USDC is approved to the router, the first transaction an open
\* submits is the trade: no capital-init, whitelist or approval
\* transaction
C32_SetupStepsCheckThenAct ==
    [][(capitalInitialized /\ tokenWhitelisted /\ allowance
           /\ gatewayCalls = <<>>)
          => \A i \in (Len(gatewayCalls) + 1)..Len(gatewayCalls') :
                gatewayCalls'[i].op = "executeTrade"]_vars

\* C33: once the open that sent a confirmed on-chain trade for a
\* (deployment, signal) pair has returned, a Position of the pair exists
C33_NoOrphanTrade ==
    \A t \in openTxs :
        (/\ t.status = "confirmed"
         /\ \A o \in Opens : otx[o] # t.hash)
           => ExistingPosition(t.dep, t.sig)

\* a nonce of the address was issued and its operation ended without
\* submitting a transaction with it, and the chain has not passed it
NonceGap(a) ==
    \E i \in 1..Len(issued[a]) :
        /\ issued[a][i] >= chainCount[a]
        /\ \A j \in 1..Len(sent[a]) : sent[a][j].nonce # issued[a][i]
        /\ \A c \in Callers :
              (nident[c] = a /\ nlocal[c] = issued[a][i])
                 => npc[c] \in {"idle", "done"}

\* C34: after a nonce of an address was acquired and never submitted, a
\* later acquisition for the address returns the count the chain had for it
C34_NonceStreamRecovers ==
    \A a \in Identities : \A k \in 1..MaxAcquisitions :
        (NonceGap(a) /\ Len(issued[a]) = k)
           ~> (\E i \in (k + 1)..Len(issued[a]) :
                  issued[a][i] = issuedNet[a][i])

\* C35: a close of an open position does not fail for lack of a token
\* balance after another position of the same token in the same Safe was
\* closed
C35_OtherPositionStaysClosable ==
    \A id \in Evaluated : \A i \in 1..Len(evals[id]) :
        evals[id][i].result = "noBalance"
           => ~\E q \in positions :
                 /\ q.id # id
                 /\ q.deploymentId = PositionById(id).deploymentId
                 /\ q.closedAt # Null

\* C10: nonce acquisition is mutually exclusive per address: two callers
\* of one address are never both between taking and releasing the lock;
\* a caller only ever waits for a holder of its own address.
C10_MutualExclusionPerIdentity ==
    /\ \A c1 \in Callers : \A c2 \in Callers :
          (c1 # c2 /\ InCriticalSection(c1) /\ InCriticalSection(c2))
              => nident[c1] # nident[c2]
    /\ \A c \in Callers :
          npc[c] = "awaitLock" => /\ nwait[c] \in Callers
                                  /\ nident[nwait[c]] = nident[c]
    /\ \A a \in Identities :
          nonceLocks[a] # NoLock => /\ InCriticalSection(nonceLocks[a])
                                    /\ nident[nonceLocks[a]] = a

\* a caller waits behind the holder of its address while a caller of the
\* other address holds that address's lock
C10_Witness ==
    \E c1 \in Callers : \E c2 \in Callers : \E c3 \in Callers :
        /\ InCriticalSection(c1) /\ InCriticalSection(c2)
        /\ nident[c1] # nident[c2]
        /\ npc[c3] = "awaitLock" /\ nwait[c3] = c1

\* C36: every closed Position has an exit price, an exit transaction hash
\* and a pnl computed from that exit price; a close is never persisted when
\* the price source returned no price
C36_ClosedPositionHasExitPrice ==
    \A p \in positions :
        p.closedAt # Null
           => /\ ~PriceUnavailable(p.exitPrice)
              /\ p.exitTxHash # NoHash
              /\ p.pnl = PnL(p, p.exitPrice, p.qty)

\* C37: the status of a manual trade only moves pending -> executing ->
\* executed or failed, or pending -> cancelled: a cancel callback does not
\* overwrite executing or executed, and a trade whose cancellation was
\* acknowledged is never opened
C37_TradeStatusTransitions ==
    /\ [][tradeStatus' # tradeStatus
            => <<tradeStatus, tradeStatus'>> \in
                  {<<"pending", "executing">>, <<"executing", "executed">>,
                   <<"executing", "failed">>, <<"pending", "cancelled">>}]_vars
    /\ []((\E c \in Callbacks : tgReply[c] = "Trade cancelled") => tgOpens = {})

\* C38: a manual trade that passed from pending to executing eventually
\* leaves that status, for executed or failed: it is not left executing when
\* the creation of the signal, the open or a later update throws
C38_ExecutingTradeSettles ==
    \A c \in Callbacks :
        (c \in tgPassed) ~> (tradeStatus # "executing")

\* C39: no signal starves in the trade worker: a signal that is pending and
\* has a deployment on which it could be opened when a run is about to
\* start is eventually attempted by the worker (unless an administrator's
\* call of the endpoint opens it first), however often the older pending
\* signals keep failing
C39_NoStarvation ==
    \A s \in WorkerSignals :
        (/\ wpc = "idle"
         /\ s \in PendingSignals
         /\ \E d \in Deployments : EndpointEligible(d))
           ~> (\/ \E d \in Deployments : <<s, d>> \in wtried
               \/ \E p \in positions : p.signalId = s)

\* C40: a position that the open created from a generated signal is closed
\* with TAKE_PROFIT only at a price that moved in its favour from the entry
\* price: above it for a long, below it for a short
C40_TakeProfitOnlyOnFavorableMove ==
    \A id \in Evaluated : \A i \in 1..Len(evals[id]) :
        evals[id][i].reason = "TAKE_PROFIT"
           => IF IsLong(PositionById(id))
              THEN evals[id][i].price > PositionById(id).entryPrice
              ELSE evals[id][i].price < PositionById(id).entryPrice

=============================================================================
